---- MODULE Spec2Model ----
(***************************************************************************)
(* Verification model of the SRAG surveillance pipeline                    *)
(* (aryMello/desafio-de-genAI): the metrics engine                         *)
(* (src/tools/metrics_tool.py), the derived-field engine                   *)
(* (src/tools/database_tool.py, src/data/processor.py) and the date        *)
(* parsing sites of loader, processor, validator and metrics.              *)
(*                                                                         *)
(* Calendar dates are day numbers (integers); a datetime at midnight of    *)
(* day d is the integer d.  strftime("%Y-%m-%d") followed by strptime of   *)
(* a midnight datetime gives the same day number, so reference dates are   *)
(* carried as day numbers.  The wall clock is a day number and a time of   *)
(* day (tod = 0 is exactly midnight, tod = 1 any later instant).           *)
(* Rates are carried in hundredths (rate100 = 100 * round(rate, 2)).       *)
(***************************************************************************)
EXTENDS Integers, Sequences, FiniteSets, TLC

VARIABLES data, report_date, now, result, report, derived, column, parsed

\* state of the ingestion side: the dataset under normalization, the
\* validator's latest report, and the loader (source file, frames in
\* memory, cache, frames held by callers, latest return, wall clock)
VARIABLES frame, quality, source, heap, cache, held, loaded, wallclock

ingestVars == <<frame, quality, source, heap, cache, held, loaded, wallclock>>

vars == <<data, report_date, now, result, report, derived, column, parsed, ingestVars>>

(***************************************************************************)
(* Bounds of the model.                                                    *)
(***************************************************************************)
MaxRows == 2
MaxTicks == 1

(***************************************************************************)
(* Program constants.                                                      *)
(***************************************************************************)
HistoricalDays == 1095
MaxAge == 120
DefaultPeriodCases == 30
DefaultPeriodMortality == 90
DefaultPeriodICU == 30
DefaultPeriodVaccination == 90

\* First wall-clock day of a run; late enough that dates older than
\* HistoricalDays are still non-negative day numbers.
Day0 == HistoricalDays + 10

NaT == 0 - 1
NoDay == 0 - 2

DoseCols == <<"DOSE_1_COV", "DOSE_2_COV", "DOSE_REF", "DOSE_2REF", "DOSE_ADIC", "DOS_RE_BI">>

DoseColSet == {DoseCols[i] : i \in 1..Len(DoseCols)}

AllCols == {"DT_NOTIFIC", "EVOLUCAO", "TEVE_OBITO", "UTI", "TEVE_UTI", "VACINA_COV"} \cup DoseColSet

(***************************************************************************)
(* Values of a dose-date cell: NaT (missing), a parsed datetime, a text    *)
(* in DD/MM/YYYY form, the text "1" (a yes/no code), or another text that  *)
(* is not a DD/MM/YYYY date (such as a YYYY-MM-DD text).                   *)
(***************************************************************************)
DoseKinds == {"NaT", "date", "dmy", "one", "bad"}

NoDoses == [c \in DoseColSet |-> "NaT"]

DefaultRow == [DT_NOTIFIC |-> Day0 - 1, EVOLUCAO |-> "1", TEVE_OBITO |-> 0,
               UTI |-> "2", TEVE_UTI |-> 0, VACINA_COV |-> "9", dose |-> NoDoses]

(***************************************************************************)
(* Helpers.                                                                *)
(***************************************************************************)
MaxOf(S) == CHOOSE x \in S : \A y \in S : y <= x

RECURSIVE SumField(_, _)
SumField(rows, f) == IF rows = << >> THEN 0 ELSE Head(rows)[f] + SumField(Tail(rows), f)

\* Python round(x, 2) of the rational n/d (d > 0) scaled by 100, i.e. the
\* nearest integer to n/d with ties to even; n is already scaled.
RoundHalfEven(n, d) ==
    LET q == n \div d
        r == n % d
    IN  IF 2 * r < d THEN q
        ELSE IF 2 * r > d THEN q + 1
        ELSE IF q % 2 = 0 THEN q ELSE q + 1

\* datetime at midnight of day d  <  clock - off days
BeforeClockMinus(d, clock, off) ==
    \/ d < clock.day - off
    \/ d = clock.day - off /\ clock.tod > 0

\* data[(DT_NOTIFIC >= lo) & (DT_NOTIFIC <= hi)]; a comparison with NaT is False
PeriodRows(rows, lo, hi) ==
    SelectSeq(rows, LAMBDA r : r.DT_NOTIFIC # NaT /\ r.DT_NOTIFIC >= lo /\ r.DT_NOTIFIC <= hi)

NoBreakdown == [k \in {} |-> 0]

NoClock == [day |-> NoDay, tod |-> 0]

\* ts is calculation_metadata['calculation_timestamp']
EmptyResult(op, clock) ==
    [op |-> op, status |-> "ok", exc |-> "", ts |-> clock, rate100 |-> 0, interp |-> "",
     num |-> 0, den |-> 0, start |-> NoDay, end |-> NoDay, pstart |-> NoDay,
     pend |-> NoDay, ref |-> NoDay, period |-> 0, breakdown |-> NoBreakdown,
     nodata |-> FALSE]

Raised(op, e) == [EmptyResult(op, NoClock) EXCEPT !.status = "raise", !.exc = e]

(***************************************************************************)
(* MetricsCalculatorTool._detect_and_adjust_reference_date                 *)
(***************************************************************************)
\* variant: the age of the data is measured from the reference date
DetectAndAdjustReferenceDate_FromReference(d, ref, clock) ==
    IF Len(d.rows) = 0 \/ "DT_NOTIFIC" \notin d.cols THEN ref
    ELSE LET dates == {d.rows[i].DT_NOTIFIC : i \in 1..Len(d.rows)} \ {NaT}
         IN  IF dates = {} THEN ref
             ELSE IF MaxOf(dates) < ref - HistoricalDays
                  THEN MaxOf(dates)
                  ELSE ref

DetectAndAdjustReferenceDate(d, ref, clock) ==
    IF Len(d.rows) = 0 \/ "DT_NOTIFIC" \notin d.cols THEN ref
    ELSE LET dates == {d.rows[i].DT_NOTIFIC : i \in 1..Len(d.rows)} \ {NaT}
         IN  IF dates = {} THEN ref
             ELSE IF BeforeClockMinus(MaxOf(dates), clock, HistoricalDays)
                  THEN MaxOf(dates)
                  ELSE ref

(***************************************************************************)
(* MetricsCalculatorTool.calculate_case_increase_rate                      *)
(***************************************************************************)
CurrentPeriodRows(rows, current_start, current_end) ==
    PeriodRows(rows, current_start, current_end)

PreviousPeriodRows(rows, previous_start, previous_end) ==
    PeriodRows(rows, previous_start, previous_end)

\* round(increase_rate, 2) in hundredths
\* variant: no 'new cases' policy, a zero previous period always gives 0
IncreaseRate100_ZeroOnNoPrevious(current_cases, previous_cases) ==
    IF previous_cases = 0
    THEN 0
    ELSE RoundHalfEven((current_cases - previous_cases) * 10000, previous_cases)

IncreaseRate100(current_cases, previous_cases) ==
    IF previous_cases = 0
    THEN (IF current_cases = 0 THEN 0 ELSE 10000)
    ELSE RoundHalfEven((current_cases - previous_cases) * 10000, previous_cases)

IncreaseInterpretation(current_cases, previous_cases) ==
    IF previous_cases = 0
    THEN (IF current_cases = 0
          THEN "Sem casos em ambos os periodos"
          ELSE "Novos casos identificados")
    ELSE IF current_cases > previous_cases THEN "Aumento em relacao ao periodo anterior"
    ELSE IF current_cases < previous_cases THEN "Diminuicao em relacao ao periodo anterior"
    ELSE "Numero de casos estavel"

CaseIncreaseRate(d, reference_date, period_days, clock) ==
    IF Len(d.rows) = 0 \/ "DT_NOTIFIC" \notin d.cols
    THEN [EmptyResult("case", clock) EXCEPT
            !.interp = "Sem dados disponiveis para o periodo analisado",
            !.ref = reference_date, !.period = period_days, !.nodata = TRUE]
    ELSE LET ref == DetectAndAdjustReferenceDate(d, reference_date, clock)
             current_end == ref
             current_start == current_end - period_days
             previous_end == current_start
             previous_start == previous_end - period_days
             current_cases == Len(CurrentPeriodRows(d.rows, current_start, current_end))
             previous_cases == Len(PreviousPeriodRows(d.rows, previous_start, previous_end))
         IN  [EmptyResult("case", clock) EXCEPT
                !.rate100 = IncreaseRate100(current_cases, previous_cases),
                !.interp = IncreaseInterpretation(current_cases, previous_cases),
                !.num = current_cases, !.den = previous_cases,
                !.start = current_start, !.end = current_end,
                !.pstart = previous_start, !.pend = previous_end,
                !.ref = ref, !.period = period_days]

(***************************************************************************)
(* MetricsCalculatorTool.calculate_mortality_rate                          *)
(***************************************************************************)
\* variant: the raw outcome code is consulted before the derived flag
MortalityDeaths_RawFirst(period_cols, period_data) ==
    IF "EVOLUCAO" \in period_cols
    THEN Len(SelectSeq(period_data, LAMBDA r : r.EVOLUCAO \in {"2", "3"}))
    ELSE IF "TEVE_OBITO" \in period_cols THEN SumField(period_data, "TEVE_OBITO")
         ELSE 0

MortalityDeaths(period_cols, period_data) ==
    IF "TEVE_OBITO" \in period_cols THEN SumField(period_data, "TEVE_OBITO")
    ELSE IF "EVOLUCAO" \in period_cols
         THEN Len(SelectSeq(period_data, LAMBDA r : r.EVOLUCAO \in {"2", "3"}))
         ELSE 0

MortalityRate(d, reference_date, period_days, clock) ==
    LET ref == DetectAndAdjustReferenceDate(d, reference_date, clock)
        start_date == ref - period_days
    IN  IF "DT_NOTIFIC" \notin d.cols THEN Raised("mortality", "KeyError")
        ELSE LET period_data == PeriodRows(d.rows, start_date, ref)
                 total_cases == Len(period_data)
                 deaths == MortalityDeaths(d.cols, period_data)
             IN  IF total_cases = 0
                 THEN [EmptyResult("mortality", clock) EXCEPT
                         !.interp = "Sem dados para o periodo analisado",
                         !.ref = ref, !.period = period_days, !.nodata = TRUE]
                 ELSE [EmptyResult("mortality", clock) EXCEPT
                         !.rate100 = RoundHalfEven(deaths * 10000, total_cases),
                         !.interp = IF deaths = 0 THEN "Nenhum obito registrado no periodo"
                                    ELSE IF deaths * 100 < 5 * total_cases THEN "Taxa de mortalidade baixa"
                                    ELSE IF deaths * 100 < 15 * total_cases THEN "Taxa de mortalidade moderada"
                                    ELSE "Taxa de mortalidade alta",
                         !.num = deaths, !.den = total_cases,
                         !.start = start_date, !.end = ref,
                         !.ref = ref, !.period = period_days]

(***************************************************************************)
(* MetricsCalculatorTool.calculate_icu_occupancy_rate                      *)
(***************************************************************************)
IcuCases(period_cols, period_data) ==
    IF "TEVE_UTI" \in period_cols THEN SumField(period_data, "TEVE_UTI")
    ELSE IF "UTI" \in period_cols
         THEN Len(SelectSeq(period_data, LAMBDA r : r.UTI = "1"))
         ELSE 0

IcuOccupancyRate(d, reference_date, period_days, clock) ==
    LET ref == DetectAndAdjustReferenceDate(d, reference_date, clock)
        start_date == ref - period_days
    IN  IF "DT_NOTIFIC" \notin d.cols THEN Raised("icu", "KeyError")
        ELSE LET period_data == PeriodRows(d.rows, start_date, ref)
                 total_hospitalized == Len(period_data)
                 icu_cases == IcuCases(d.cols, period_data)
             IN  IF total_hospitalized = 0
                 THEN [EmptyResult("icu", clock) EXCEPT
                         !.interp = "Sem dados para o periodo analisado",
                         !.ref = ref, !.period = period_days, !.nodata = TRUE]
                 ELSE [EmptyResult("icu", clock) EXCEPT
                         !.rate100 = RoundHalfEven(icu_cases * 10000, total_hospitalized),
                         !.interp = IF icu_cases = 0 THEN "Nenhuma internacao em UTI registrada"
                                    ELSE IF icu_cases * 100 < 20 * total_hospitalized THEN "Taxa de UTI baixa"
                                    ELSE IF icu_cases * 100 < 40 * total_hospitalized THEN "Taxa de UTI moderada"
                                    ELSE "Taxa de UTI alta - casos graves",
                         !.num = icu_cases, !.den = total_hospitalized,
                         !.start = start_date, !.end = ref,
                         !.ref = ref, !.period = period_days]

(***************************************************************************)
(* MetricsCalculatorTool.calculate_vaccination_rate                        *)
(***************************************************************************)
\* pd.to_datetime(col, format='%d/%m/%Y', errors='coerce') on one cell
ParseDoseDMY(v) == CASE v = "dmy" -> "date" [] v \in {"one", "bad"} -> "NaT" [] OTHER -> v

\* pd.api.types.is_datetime64_any_dtype(period_data[col])
IsDatetimeColumn(d, c) == \A i \in 1..Len(d.rows) : d.rows[i].dose[c] \in {"NaT", "date"}

CoercedDose(d, r, c) == IF IsDatetimeColumn(d, c) THEN r.dose[c] ELSE ParseDoseDMY(r.dose[c])

DoseCount(d, period_data, c) ==
    IF c \in d.cols
    THEN Len(SelectSeq(period_data, LAMBDA r : CoercedDose(d, r, c) # "NaT"))
    ELSE 0

\* variant: vaccinated by the yes/no vaccination code
VaccinatedCases_ByCode(d, period_data, available_dose_cols) ==
    Len(SelectSeq(period_data, LAMBDA r : r.VACINA_COV = "1"))

VaccinatedCases(d, period_data, available_dose_cols) ==
    Len(SelectSeq(period_data, LAMBDA r : \E c \in available_dose_cols : CoercedDose(d, r, c) # "NaT"))

EmptyVaccinationResult(reference_date, period_days, clock) ==
    [EmptyResult("vaccination", clock) EXCEPT
        !.interp = "Dados de vacinacao nao disponiveis para o periodo",
        !.breakdown = [k \in {"dose_1", "dose_2", "dose_booster"} |-> 0],
        !.ref = reference_date, !.period = period_days, !.nodata = TRUE]

VaccinationRate(d, reference_date, period_days, clock) ==
    LET ref == DetectAndAdjustReferenceDate(d, reference_date, clock)
        start_date == ref - period_days
    IN  IF "DT_NOTIFIC" \notin d.cols THEN Raised("vaccination", "KeyError")
        ELSE LET period_data == PeriodRows(d.rows, start_date, ref)
                 total_cases == Len(period_data)
                 available_dose_cols == DoseColSet \cap d.cols
                 vaccinated_cases == VaccinatedCases(d, period_data, available_dose_cols)
             IN  IF total_cases = 0 THEN EmptyVaccinationResult(ref, period_days, clock)
                 ELSE IF available_dose_cols = {} THEN EmptyVaccinationResult(ref, period_days, clock)
                 ELSE [EmptyResult("vaccination", clock) EXCEPT
                         !.rate100 = RoundHalfEven(vaccinated_cases * 10000, total_cases),
                         !.interp = IF vaccinated_cases = 0 THEN "Nenhum caso vacinado identificado no periodo"
                                    ELSE IF vaccinated_cases * 100 < 30 * total_cases THEN "Taxa de vacinacao baixa"
                                    ELSE IF vaccinated_cases * 100 < 70 * total_cases THEN "Taxa de vacinacao moderada"
                                    ELSE "Taxa de vacinacao alta",
                         !.num = vaccinated_cases, !.den = total_cases,
                         !.breakdown = [k \in {"dose_1", "dose_2", "dose_booster",
                                               "dose_2nd_booster", "dose_additional"} |->
                                          CASE k = "dose_1" -> DoseCount(d, period_data, "DOSE_1_COV")
                                            [] k = "dose_2" -> DoseCount(d, period_data, "DOSE_2_COV")
                                            [] k = "dose_booster" -> DoseCount(d, period_data, "DOSE_REF")
                                            [] k = "dose_2nd_booster" -> DoseCount(d, period_data, "DOSE_2REF")
                                            [] OTHER -> DoseCount(d, period_data, "DOSE_ADIC")],
                         !.start = start_date, !.end = ref,
                         !.ref = ref, !.period = period_days]

(***************************************************************************)
(* SRAGOrchestrator._calculate_metrics: the four metrics in sequence with  *)
(* the report date and each metric's default period; the first exception   *)
(* propagates.                                                             *)
(***************************************************************************)
NoReport == [status |-> "none", exc |-> "", report_date |-> NoDay, metrics |-> << >>]

OrchestratorMetrics(d, rdate, clock) ==
    LET ms == << CaseIncreaseRate(d, rdate, DefaultPeriodCases, clock),
                 MortalityRate(d, rdate, DefaultPeriodMortality, clock),
                 IcuOccupancyRate(d, rdate, DefaultPeriodICU, clock),
                 VaccinationRate(d, rdate, DefaultPeriodVaccination, clock) >>
        failed == {i \in 1..4 : ms[i].status = "raise"}
    IN  IF failed = {}
        THEN [status |-> "ok", exc |-> "", report_date |-> rdate, metrics |-> ms]
        ELSE [status |-> "raise", exc |-> ms[CHOOSE i \in failed : \A j \in failed : i <= j].exc,
              report_date |-> rdate, metrics |-> << >>]

(***************************************************************************)
(* DatabaseTool._create_vaccination_status_field.  status is the           *)
(* STATUS_VACINAL_COVID column; selecting a list of columns one of which   *)
(* does not exist (data[['DOSE_REF', 'DOSE_2REF', 'DOSE_ADIC']]) raises    *)
(* KeyError, and the assignments made before it stay in the column.        *)
(***************************************************************************)
StatusDoseCols == {"DOSE_1_COV", "DOSE_2_COV", "DOSE_REF", "DOSE_2REF", "DOSE_ADIC"}

BoosterCols == {"DOSE_REF", "DOSE_2REF", "DOSE_ADIC"}

SecondBoosterCols == {"DOSE_2REF", "DOSE_ADIC"}

\* data[col].notna() for one row
NotNa(r, c) == r.dose[c] # "NaT"

\* data[cs].notna().any(axis=1) for one row
AnyNotNa(r, cs) == \E c \in cs : NotNa(r, c)

\* the step (2 = second dose, 3 = booster) at which the column selection
\* raises KeyError, or 0 when no step raises
VaccinationStatusRaisesAt(cols) ==
    IF "DOSE_2_COV" \in cols /\ BoosterCols \cap cols # {} /\ ~(BoosterCols \subseteq cols) THEN 2
    ELSE IF "DOSE_REF" \in cols /\ SecondBoosterCols \cap cols # {} /\ ~(SecondBoosterCols \subseteq cols) THEN 3
    ELSE 0

\* the value of STATUS_VACINAL_COVID of row r after the steps before `stop`
\* (stop = 0: all steps)
VaccinationStatusOfRow(cols, r, stop) ==
    LET available_doses == StatusDoseCols \cap cols
        runs(k) == stop = 0 \/ k < stop
        s0 == "Nao informado"
        s1 == IF ~AnyNotNa(r, available_doses) THEN "Nao vacinado" ELSE s0
        s2 == IF "DOSE_1_COV" \in cols /\ NotNa(r, "DOSE_1_COV")
                 /\ ("DOSE_2_COV" \in cols => ~NotNa(r, "DOSE_2_COV"))
              THEN "1a dose apenas" ELSE s1
        s3 == IF runs(2) /\ "DOSE_2_COV" \in cols /\ NotNa(r, "DOSE_2_COV")
                 /\ ~AnyNotNa(r, BoosterCols \cap cols)
              THEN "Esquema completo (2 doses)" ELSE s2
        s4 == IF runs(3) /\ "DOSE_REF" \in cols /\ NotNa(r, "DOSE_REF")
                 /\ ~AnyNotNa(r, SecondBoosterCols \cap cols)
              THEN "Com dose de reforco" ELSE s3
        s5 == IF runs(4) /\ AnyNotNa(r, SecondBoosterCols \cap cols)
              THEN "Com reforcos adicionais" ELSE s4
    IN  IF available_doses = {} THEN s0 ELSE s5

CreateVaccinationStatusField(d) ==
    LET stop == IF StatusDoseCols \cap d.cols = {} THEN 0 ELSE VaccinationStatusRaisesAt(d.cols)
    IN  [raised |-> stop # 0,
         status |-> [i \in 1..Len(d.rows) |-> VaccinationStatusOfRow(d.cols, d.rows[i], stop)]]

(***************************************************************************)
(* DatabaseTool._create_derived_fields: the derived columns are created in *)
(* order; an exception is logged and the frame is returned with the        *)
(* columns created so far.                                                 *)
(***************************************************************************)
NoDerived == [op |-> "none", failed |-> FALSE, cols |-> {}, status |-> << >>]

DbCreateDerivedFields(d) ==
    LET vs == CreateVaccinationStatusField(d)
        before == (IF "EVOLUCAO" \in d.cols THEN {"EVOLUCAO_SIMPLES"} ELSE {})
                  \cup (IF "UTI" \in d.cols THEN {"CASO_GRAVE"} ELSE {})
                  \cup {"STATUS_VACINAL_COVID"}
        after == IF "DT_NOTIFIC" \in d.cols THEN {"ANO", "MES", "SEMANA_EPI"} ELSE {}
    IN  [op |-> "db", failed |-> vs.raised,
         cols |-> d.cols \cup before \cup (IF vs.raised THEN {} ELSE after),
         status |-> vs.status]

(***************************************************************************)
(* SRAGDataProcessor._create_derived_fields, step 6: STATUS_VACINAL from   *)
(* the vaccination code, refined by the dose columns read as numbers.      *)
(***************************************************************************)
\* pd.to_numeric(data[col], errors='coerce') == 1 for one cell
DoseEqualsOne(r, c) == r.dose[c] = "one"

ProcStatusOfRow(cols, r) ==
    LET s0 == "Nao informado"
        s1 == IF "VACINA_COV" \in cols /\ r.VACINA_COV = "2" THEN "Nao vacinado" ELSE s0
        s2 == IF "VACINA_COV" \in cols /\ r.VACINA_COV = "1" THEN "Vacinado" ELSE s1
        s3 == IF "DOSE_1_COV" \in cols /\ DoseEqualsOne(r, "DOSE_1_COV") THEN "1a dose" ELSE s2
        s4 == IF "DOSE_2_COV" \in cols /\ DoseEqualsOne(r, "DOSE_2_COV") THEN "2a dose" ELSE s3
        s5 == IF "DOSE_REF" \in cols /\ DoseEqualsOne(r, "DOSE_REF") THEN "Dose reforco" ELSE s4
    IN  s5

ProcCreateDerivedFields(d) ==
    [op |-> "proc", failed |-> FALSE,
     cols |-> d.cols \cup {"STATUS_VACINAL"}
              \cup (IF "EVOLUCAO" \in d.cols THEN {"EVOLUCAO_SIMPLES", "TEVE_OBITO"} ELSE {})
              \cup (IF "UTI" \in d.cols THEN {"TEVE_UTI", "CASO_GRAVE"} ELSE {})
              \cup (IF "DT_NOTIFIC" \in d.cols THEN {"ANO", "MES", "DIA_SEMANA", "SEMANA_EPI", "TRIMESTRE"} ELSE {}),
     status |-> [i \in 1..Len(d.rows) |-> ProcStatusOfRow(d.cols, d.rows[i])]]

(***************************************************************************)
(* Date parsing.  A cell of a date column is missing (nan), an already     *)
(* parsed datetime (ts), a YYYY-MM-DD text (iso), a DD/MM/YYYY text (br)   *)
(* or another text (junk); d and m are its day and month.  A parsed value  *)
(* is a datetime [d, m] or NaTCell.                                        *)
(***************************************************************************)
NaTCell == [d |-> 0, m |-> 0]

IsoDateFields == {"DT_NOTIFIC", "DT_SIN_PRI", "DT_NASC", "DT_EVOLUCA",
                  "DT_ENCERRA", "DT_DIGITA", "DT_INTERNA", "DT_COLETA",
                  "DT_PCR", "DT_ENTUTI", "DT_SAIDUTI", "DT_RAIOX",
                  "DT_ANTIVIR", "DT_TOMO", "DT_CO_SOR", "DT_RES",
                  "DT_TRT_COV", "VG_DTRES", "DT_UT_DOSE", "DT_VAC_MAE"}

BrazilianDateFields == {"DOSE_1_COV", "DOSE_2_COV", "DOSE_REF",
                        "DOSE_2REF", "DOSE_ADIC", "DOS_RE_BI",
                        "DT_DOSEUNI", "DT_1_DOSE", "DT_2_DOSE"}

ProcessorDateFields == {"DT_EVOLUCA", "DT_SIN_PRI", "DT_INTERNA", "DT_ENTUTI", "DT_SAIDUTI"}

ValidatorDateFields == {"DT_NOTIFIC", "DT_EVOLUCA", "DT_INTERNA", "DT_SIN_PRI",
                        "DT_NASC", "DT_COLETA", "DT_PCR", "DT_DIGITA"}

\* pd.to_datetime(cell, format=fmt, errors='coerce')
ParseWithFormat(fmt, cell) ==
    CASE cell.style = "ts" -> [d |-> cell.d, m |-> cell.m]
      [] cell.style = "iso" /\ fmt = "%Y-%m-%d" -> [d |-> cell.d, m |-> cell.m]
      [] cell.style = "br" /\ fmt = "%d/%m/%Y" -> [d |-> cell.d, m |-> cell.m]
      [] OTHER -> NaTCell

\* pd.api.types.is_datetime64_any_dtype(column)
IsDatetimeDtype(cells) ==
    /\ \A i \in 1..Len(cells) : cells[i].style \in {"ts", "nan"}
    /\ \E i \in 1..Len(cells) : cells[i].style = "ts"

NoColumn == [field |-> "", cells |-> << >>]

NoParsed == [site |-> "none", field |-> "", format |-> "", values |-> << >>, verdict |-> ""]

\* DatabaseTool._parse_all_dates on one column
ParseAllDatesColumn(col) ==
    LET fmt == IF col.field \in IsoDateFields THEN "%Y-%m-%d" ELSE "%d/%m/%Y"
    IN  [site |-> "loader", field |-> col.field, format |-> fmt,
         values |-> [i \in 1..Len(col.cells) |-> ParseWithFormat(fmt, col.cells[i])],
         verdict |-> ""]

\* DatabaseTool._parse_all_dates on the dose-date cells of a dataset
ParseDoseDates(d) ==
    [d EXCEPT !.rows = [i \in 1..Len(d.rows) |->
        [d.rows[i] EXCEPT !.dose = [c \in DoseColSet |->
            IF c \in BrazilianDateFields THEN ParseDoseDMY(d.rows[i].dose[c]) ELSE d.rows[i].dose[c]]]]]

\* SRAGDataProcessor._preprocess_chunk (DT_NOTIFIC) and _convert_data_types
ProcessorParseColumn(col) ==
    [site |-> "processor", field |-> col.field, format |-> "%Y-%m-%d",
     values |-> [i \in 1..Len(col.cells) |-> ParseWithFormat("%Y-%m-%d", col.cells[i])],
     verdict |-> ""]

\* MetricsCalculatorTool.calculate_vaccination_rate, dose columns that are
\* not of datetime dtype
MetricsParseDoseColumn(col) ==
    [site |-> "metrics", field |-> col.field, format |-> "%d/%m/%Y",
     values |-> [i \in 1..Len(col.cells) |-> ParseWithFormat("%d/%m/%Y", col.cells[i])],
     verdict |-> ""]

\* SRAGDataValidator._validate_data_types on one date field: the non-null
\* sample is converted with errors='raise'
ValidateDateFieldType(col) ==
    LET sample == SelectSeq(col.cells, LAMBDA c : c.style # "nan")
        converts == \A i \in 1..Len(sample) : ParseWithFormat("%d/%m/%Y", sample[i]) # NaTCell
    IN  IF IsDatetimeDtype(col.cells)
        THEN [site |-> "validator", field |-> col.field, format |-> "", values |-> << >>,
              verdict |-> "valid_datetime"]
        ELSE [site |-> "validator", field |-> col.field, format |-> "%d/%m/%Y", values |-> << >>,
              verdict |-> IF converts THEN "convertible_to_date" ELSE "invalid_date_format"]

(***************************************************************************)
(* Input datasets.  A dataset is its column set and its rows; a row keeps  *)
(* a value for every modelled column, read only when the column exists.    *)
(***************************************************************************)
SeqsUpTo(S, n) == UNION {[1..k -> S] : k \in 0..n}

DateChoices == {NaT, Day0 - HistoricalDays - 1, Day0 - HistoricalDays, Day0 - HistoricalDays + 1,
                Day0 - 4, Day0 - 2, Day0 - 1, Day0}

RefChoices == {Day0 - HistoricalDays + 1, Day0, Day0 + 1, Day0 + HistoricalDays + 5}

PeriodChoices == {1, 2}

WindowDates == {Day0 - 1, Day0 - 4}

\* rows that differ in the notification date only
DateRows == {[DefaultRow EXCEPT !.DT_NOTIFIC = dt] : dt \in DateChoices}

DateDatasets == {[cols |-> AllCols, rows |-> rs] : rs \in SeqsUpTo(DateRows, MaxRows)}

\* rows that differ in outcome code and derived death flag
OutcomeChoices == {<<"1", 0>>, <<"2", 1>>, <<"3", 0>>, <<"1", 1>>}

MortalityRows == {[DefaultRow EXCEPT !.EVOLUCAO = eo[1], !.TEVE_OBITO = eo[2]] : eo \in OutcomeChoices}
                 \cup {[DefaultRow EXCEPT !.DT_NOTIFIC = dt, !.EVOLUCAO = "2", !.TEVE_OBITO = 1] :
                          dt \in WindowDates}

MortalityDatasets == {[cols |-> {"DT_NOTIFIC"} \cup cs, rows |-> rs] :
                        cs \in SUBSET {"EVOLUCAO", "TEVE_OBITO"}, rs \in SeqsUpTo(MortalityRows, MaxRows)}

\* rows that differ in ICU code and derived critical-care flag
IcuRows == {[DefaultRow EXCEPT !.UTI = u, !.TEVE_UTI = t] : u \in {"1", "2"}, t \in {0, 1}}
           \cup {[DefaultRow EXCEPT !.DT_NOTIFIC = dt, !.UTI = "1", !.TEVE_UTI = 1] : dt \in WindowDates}

IcuDatasets == {[cols |-> {"DT_NOTIFIC"} \cup cs, rows |-> rs] :
                  cs \in SUBSET {"UTI", "TEVE_UTI"}, rs \in SeqsUpTo(IcuRows, MaxRows)}

\* dose-date profiles of one record
DoseProfiles == {NoDoses,
                 [NoDoses EXCEPT !["DOSE_1_COV"] = "date"],
                 [NoDoses EXCEPT !["DOSE_1_COV"] = "dmy"],
                 [NoDoses EXCEPT !["DOSE_1_COV"] = "bad"],
                 [NoDoses EXCEPT !["DOSE_1_COV"] = "date", !["DOSE_2_COV"] = "date"],
                 [NoDoses EXCEPT !["DOSE_REF"] = "date"],
                 [NoDoses EXCEPT !["DOS_RE_BI"] = "date"]}

VaccinationRows ==
    {[DefaultRow EXCEPT !.dose = p, !.VACINA_COV = "2"] : p \in DoseProfiles}
    \cup {[DefaultRow EXCEPT !.dose = NoDoses, !.VACINA_COV = "1"]}
    \cup {[DefaultRow EXCEPT !.DT_NOTIFIC = Day0 - 4, !.dose = [NoDoses EXCEPT !["DOSE_1_COV"] = "date"]]}

DoseColumnChoices == {{}, {"DOSE_1_COV", "DOSE_2_COV", "DOSE_REF"}, DoseColSet}

VaccinationDatasets == {[cols |-> {"DT_NOTIFIC", "VACINA_COV"} \cup cs, rows |-> rs] :
                          cs \in DoseColumnChoices, rs \in SeqsUpTo(VaccinationRows, MaxRows)}

\* the entirely empty dataset (pd.DataFrame()) and datasets without the date column
NoDateDatasets == {[cols |-> {}, rows |-> << >>]}
                  \cup {[cols |-> {"EVOLUCAO", "TEVE_OBITO", "UTI", "DOSE_1_COV"}, rows |-> rs] :
                          rs \in SeqsUpTo({[DefaultRow EXCEPT !.DT_NOTIFIC = NaT]}, MaxRows)}

\* reference dates around the current day
NearRefChoices == {Day0, Day0 + 1}

\* a request is a dataset and a reference date; datasets that vary the
\* notification dates meet every reference date, the others the dates
\* around the current day
Requests == ((DateDatasets \cup NoDateDatasets) \X RefChoices)
            \cup ((MortalityDatasets \cup IcuDatasets \cup VaccinationDatasets) \X NearRefChoices)

(***************************************************************************)
(* State machine of one report request over a caller's dataset.            *)
(* report_date is the request's reference date (request_data               *)
(* ['report_date']); result is the value returned by the latest call of a  *)
(* metric operation, report the value returned by the latest               *)
(* _calculate_metrics; only the latest return value is kept.               *)
(***************************************************************************)
NoResult == [EmptyResult("none", NoClock) EXCEPT !.status = "none"]

\* nothing ingested yet: no dataset under normalization, no validation
\* report, no source file, an empty cache (self.cache = {})
NoFrame == [path |-> "none", status |-> "none", passes |-> 0, raw |-> << >>, rows |-> << >>,
            first |-> << >>, flags |-> << >>, has_rows_removed |-> FALSE]

NoQuality == [op |-> "none"]

NoSource == [exists |-> FALSE, chunks |-> << >>]

NoLoaded == [op |-> "none"]

IngestIdle ==
    /\ frame = NoFrame
    /\ quality = NoQuality
    /\ source = NoSource
    /\ heap = << >>
    /\ cache = << >>
    /\ held = {}
    /\ loaded = NoLoaded
    /\ wallclock = 0

Init ==
    /\ \E rq \in Requests : data = rq[1] /\ report_date = rq[2]
    /\ now = [day |-> Day0, tod |-> 0]
    /\ result = NoResult
    /\ report = NoReport
    /\ derived = NoDerived
    /\ column = NoColumn
    /\ parsed = NoParsed
    /\ IngestIdle

\* the wall clock advances: midnight -> later the same day -> next midnight
Tick ==
    /\ 2 * (now.day - Day0) + now.tod < MaxTicks
    /\ now' = IF now.tod = 0 THEN [now EXCEPT !.tod = 1] ELSE [day |-> now.day + 1, tod |-> 0]
    /\ UNCHANGED <<data, report_date, result, report, derived, column, parsed, ingestVars>>

CalcCaseIncreaseRate ==
    \E n \in PeriodChoices :
        /\ result' = CaseIncreaseRate(data, report_date, n, now)
        /\ report' = NoReport
        /\ UNCHANGED <<data, report_date, now, derived, column, parsed, ingestVars>>

CalcMortalityRate ==
    \E n \in PeriodChoices :
        /\ result' = MortalityRate(data, report_date, n, now)
        /\ report' = NoReport
        /\ UNCHANGED <<data, report_date, now, derived, column, parsed, ingestVars>>

CalcIcuOccupancyRate ==
    \E n \in PeriodChoices :
        /\ result' = IcuOccupancyRate(data, report_date, n, now)
        /\ report' = NoReport
        /\ UNCHANGED <<data, report_date, now, derived, column, parsed, ingestVars>>

CalcVaccinationRate ==
    \E n \in PeriodChoices :
        /\ result' = VaccinationRate(data, report_date, n, now)
        /\ report' = NoReport
        /\ UNCHANGED <<data, report_date, now, derived, column, parsed, ingestVars>>

CalculateMetrics ==
    /\ report' = OrchestratorMetrics(data, report_date, now)
    /\ result' = NoResult
    /\ UNCHANGED <<data, report_date, now, derived, column, parsed, ingestVars>>

Next ==
    \/ Tick
    \/ CalcCaseIncreaseRate
    \/ CalcMortalityRate
    \/ CalcIcuOccupancyRate
    \/ CalcVaccinationRate
    \/ CalculateMetrics

Spec == Init /\ [][Next]_vars

(***************************************************************************)
(* The derived-field step applied to a dataset, by the database tool       *)
(* (dose cells already parsed to datetimes) or by the processor (cells     *)
(* still text).                                                            *)
(***************************************************************************)
DoseSet(cs, kind) == [c \in DoseColSet |-> IF c \in cs THEN kind ELSE "NaT"]

DeriveProfiles == {DoseSet(cs, "date") :
                     cs \in {{}, {"DOSE_1_COV"}, {"DOSE_1_COV", "DOSE_2_COV"},
                             {"DOSE_1_COV", "DOSE_2_COV", "DOSE_REF"},
                             {"DOSE_1_COV", "DOSE_2_COV", "DOSE_REF", "DOSE_2REF"},
                             {"DOSE_REF"}, {"DOSE_ADIC"}}}
                  \cup {DoseSet({"DOSE_1_COV"}, "one"), DoseSet({"DOSE_1_COV"}, "dmy")}

DeriveRows == {[DefaultRow EXCEPT !.dose = p, !.VACINA_COV = v] : p \in DeriveProfiles, v \in {"1", "2"}}

DeriveColumnChoices == {{}, {"DOSE_1_COV"}, {"DOSE_1_COV", "DOSE_2_COV"},
                        {"DOSE_1_COV", "DOSE_2_COV", "DOSE_REF"},
                        {"DOSE_1_COV", "DOSE_2_COV", "DOSE_REF", "VACINA_COV"},
                        StatusDoseCols, StatusDoseCols \cup {"VACINA_COV"},
                        {"DOSE_REF", "DOSE_ADIC"}}

DeriveDatasets == {[cols |-> {"DT_NOTIFIC", "EVOLUCAO", "UTI"} \cup cs, rows |-> rs] :
                     cs \in DeriveColumnChoices, rs \in SeqsUpTo(DeriveRows, MaxRows) \ {<< >>}}

InitDerive ==
    /\ data \in DeriveDatasets
    /\ report_date = Day0
    /\ now = [day |-> Day0, tod |-> 0]
    /\ result = NoResult
    /\ report = NoReport
    /\ derived = NoDerived
    /\ column = NoColumn
    /\ parsed = NoParsed
    /\ IngestIdle

DatabaseToolCreateDerivedFields ==
    /\ derived' = DbCreateDerivedFields(ParseDoseDates(data))
    /\ UNCHANGED <<data, report_date, now, result, report, column, parsed, ingestVars>>

ProcessorCreateDerivedFields ==
    /\ derived' = ProcCreateDerivedFields(data)
    /\ UNCHANGED <<data, report_date, now, result, report, column, parsed, ingestVars>>

NextDerive ==
    \/ DatabaseToolCreateDerivedFields
    \/ ProcessorCreateDerivedFields

SpecDerive == InitDerive /\ [][NextDerive]_vars

(***************************************************************************)
(* The date parsing and checking sites applied to one column.              *)
(***************************************************************************)
DayChoices == {5, 20}

MonthChoices == {3}

DateCells == {[style |-> st, d |-> d, m |-> m] : st \in {"iso", "br", "ts"}, d \in DayChoices, m \in MonthChoices}
             \cup {[style |-> "junk", d |-> 0, m |-> 0], [style |-> "nan", d |-> 0, m |-> 0]}

FieldChoices == {"DT_NOTIFIC", "DT_EVOLUCA", "DT_NASC", "DOSE_1_COV", "DOSE_REF", "CS_SEXO"}

InitDates ==
    /\ column \in {[field |-> f, cells |-> cs] :
                     f \in FieldChoices, cs \in SeqsUpTo(DateCells, MaxRows) \ {<< >>}}
    /\ parsed = NoParsed
    /\ data = [cols |-> {}, rows |-> << >>]
    /\ report_date = Day0
    /\ now = [day |-> Day0, tod |-> 0]
    /\ result = NoResult
    /\ report = NoReport
    /\ derived = NoDerived
    /\ IngestIdle

LoaderParseAllDates ==
    /\ column.field \in IsoDateFields \cup BrazilianDateFields
    /\ parsed' = ParseAllDatesColumn(column)
    /\ UNCHANGED <<data, report_date, now, result, report, derived, column, ingestVars>>

ProcessorParseDates ==
    /\ column.field \in {"DT_NOTIFIC"} \cup ProcessorDateFields
    /\ parsed' = ProcessorParseColumn(column)
    /\ UNCHANGED <<data, report_date, now, result, report, derived, column, ingestVars>>

MetricsParseDoseDates ==
    /\ column.field \in DoseColSet
    /\ ~IsDatetimeDtype(column.cells)
    /\ parsed' = MetricsParseDoseColumn(column)
    /\ UNCHANGED <<data, report_date, now, result, report, derived, column, ingestVars>>

ValidatorValidateDataTypes ==
    /\ column.field \in ValidatorDateFields
    /\ parsed' = ValidateDateFieldType(column)
    /\ UNCHANGED <<data, report_date, now, result, report, derived, column, ingestVars>>

NextDates ==
    \/ LoaderParseAllDates
    \/ ProcessorParseDates
    \/ MetricsParseDoseDates
    \/ ValidatorValidateDataTypes

SpecDates == InitDates /\ [][NextDates]_vars

(***************************************************************************)
(* Properties of the metrics engine.                                       *)
(***************************************************************************)
\* every metric result currently observed: the latest direct return and
\* the four results of the latest _calculate_metrics
Results == {result} \cup {report.metrics[i] : i \in DOMAIN report.metrics}

OkResults == {r \in Results : r.status = "ok"}

Abs(x) == IF x < 0 THEN 0 - x ELSE x

\* rate100 is n/d * 100 rounded to two decimals (d > 0)
IsRounded(rate100, n, d) == 2 * Abs(rate100 * d - n * 10000) <= d

\* the non-missing notification dates of the dataset
DataDates == IF "DT_NOTIFIC" \in data.cols
             THEN {data.rows[i].DT_NOTIFIC : i \in 1..Len(data.rows)} \ {NaT}
             ELSE {}

\* indices of the rows dated in the closed interval [lo, hi]
RowsBetween(lo, hi) ==
    {i \in 1..Len(data.rows) : /\ data.rows[i].DT_NOTIFIC # NaT
                               /\ lo <= data.rows[i].DT_NOTIFIC
                               /\ data.rows[i].DT_NOTIFIC <= hi}

\* C1: for every metric and every reference date later than today, the
\* window the metric uses ends no later than today (the day of the call).
C1_WindowEndsByToday ==
    \A r \in OkResults : r.end # NoDay => r.end <= r.ts.day

C3_ZeroPreviousIsStable ==
    \A r \in OkResults :
        r.op = "case" =>
            /\ r.den = 0 /\ r.num = 0 => r.rate100 = 0 /\ r.interp = "Numero de casos estavel"
            /\ r.den = 0 /\ r.num > 0 => r.rate100 = 10000 /\ r.interp = "Novos casos identificados"
            /\ r.den > 0 => IsRounded(r.rate100, r.num - r.den, r.den)

\* C3 (amended): previous = 0 and current = 0 gives rate 0 with the
\* 'no cases in both periods' interpretation ('no data available' when the
\* dataset is empty or has no date column); previous = 0 and current > 0
\* gives rate 100 with 'new cases'; otherwise the rate is
\* (current - previous) / previous * 100 rounded to two decimals, and the
\* 'stable' interpretation is given exactly when previous > 0 and
\* current = previous.
C3_ZeroPreviousPolicy ==
    \A r \in OkResults :
        r.op = "case" =>
            /\ r.den = 0 /\ r.num = 0 =>
                   /\ r.rate100 = 0
                   /\ r.interp = IF Len(data.rows) = 0 \/ "DT_NOTIFIC" \notin data.cols
                                 THEN "Sem dados disponiveis para o periodo analisado"
                                 ELSE "Sem casos em ambos os periodos"
            /\ r.den = 0 /\ r.num > 0 => r.rate100 = 10000 /\ r.interp = "Novos casos identificados"
            /\ r.den > 0 => IsRounded(r.rate100, r.num - r.den, r.den)
            /\ r.interp = "Numero de casos estavel" <=> r.den > 0 /\ r.num = r.den

\* a case-trend result over a dataset with dated rows, none in either period
C3_Witness ==
    \E r \in OkResults : r.op = "case" /\ r.end # NoDay /\ r.den = 0 /\ r.num = 0 /\ DataDates # {}

\* C4: current counts the notifications in [ref-N, ref], previous those in
\* [ref-2N, ref-N); no notification is counted in both periods.
C4_PeriodsDisjoint ==
    \A r \in OkResults :
        r.op = "case" /\ r.end # NoDay =>
            /\ r.num = Cardinality(RowsBetween(r.start, r.end))
            /\ r.den = Cardinality(RowsBetween(r.pstart, r.pend - 1))

\* C5: every metric returns rate 0.0 and raises nothing on the entirely
\* empty dataset and on a non-empty dataset with no row inside the window.
C5_EmptyInputsGiveZeroRate ==
    \A r \in Results :
        r.status # "none" =>
            /\ data.rows = << >> /\ data.cols = {} => r.status = "ok" /\ r.rate100 = 0
            /\ r.status = "ok" /\ Len(data.rows) > 0 /\ "DT_NOTIFIC" \in data.cols
                  /\ RowsBetween(r.ref - r.period, r.ref) = {} => r.rate100 = 0

\* C6: for every metric a non-empty dataset without the notification-date
\* column gives a structural failure (ValueError), never a result.
C6_MissingDateColumnFails ==
    \A r \in Results :
        r.status # "none" /\ Len(data.rows) > 0 /\ "DT_NOTIFIC" \notin data.cols =>
            r.status = "raise" /\ r.exc = "ValueError"

DosePresent(i, c) == c \in data.cols /\ data.rows[i].dose[c] \in {"date", "dmy"}

TierOf(label) ==
    CASE label \in {"Nao informado"} -> "unknown"
      [] label \in {"Nao vacinado"} -> "not vaccinated"
      [] label \in {"1a dose apenas", "1a dose"} -> "first dose only"
      [] label \in {"Esquema completo (2 doses)", "2a dose"} -> "complete scheme"
      [] label \in {"Com dose de reforco", "Dose reforco"} -> "with booster"
      [] label \in {"Com reforcos adicionais"} -> "with additional boosters"
      [] OTHER -> label

\* a dose date is present for row i of the dataset
HasDose(i, c) == c \in data.cols /\ data.rows[i].dose[c] \in {"date", "dmy"}

\* the tiers the documented precedence allows for row i ({} certain tier;
\* a record with a second dose but no first dose is not covered)
DocumentedTiers(i) ==
    IF StatusDoseCols \cap data.cols = {} THEN {"unknown"}
    ELSE IF HasDose(i, "DOSE_2REF") \/ HasDose(i, "DOSE_ADIC") THEN {"with additional boosters"}
    ELSE IF HasDose(i, "DOSE_REF") THEN {"with booster"}
    ELSE IF HasDose(i, "DOSE_1_COV") /\ HasDose(i, "DOSE_2_COV") THEN {"complete scheme"}
    ELSE IF HasDose(i, "DOSE_1_COV") THEN {"first dose only"}
    ELSE IF HasDose(i, "DOSE_2_COV") THEN {"complete scheme", "first dose only", "not vaccinated"}
    ELSE {"not vaccinated"}

\* C9: the vaccination status of a record depends only on which dose-date
\* fields are present for it and equals the highest satisfied tier;
\* without any dose-date column every record is 'unknown'.
C9_StatusFromDoseDates ==
    derived.op # "none" =>
        \A i \in 1..Len(data.rows) : TierOf(derived.status[i]) \in DocumentedTiers(i)

(***************************************************************************)
(* Properties of date parsing.                                             *)
(***************************************************************************)
\* the calendar ordering assigned to a field by its name
GroupFormat(f) == IF f \in BrazilianDateFields THEN "%d/%m/%Y" ELSE "%Y-%m-%d"

\* a text cell is a valid date of its field's calendar
ValidForField(f, cell) ==
    \/ cell.style = "ts"
    \/ cell.style = "iso" /\ GroupFormat(f) = "%Y-%m-%d"
    \/ cell.style = "br" /\ GroupFormat(f) = "%d/%m/%Y"

\* C10: every date field is parsed or checked under the one ordering of
\* its group (primary: year-month-day, dose dates: day-month-year) at
\* every site of loader, processor, validator and metrics.
C10_OneOrderingPerField ==
    parsed.site # "none" =>
        /\ parsed.format # "" => parsed.format = GroupFormat(parsed.field)
        /\ \A i \in 1..Len(parsed.values) :
              parsed.values[i] # NaTCell <=> ValidForField(parsed.field, column.cells[i])
        /\ parsed.verdict = "invalid_date_format" =>
              \E i \in 1..Len(column.cells) :
                  column.cells[i].style # "nan" /\ ~ValidForField(parsed.field, column.cells[i])

(***************************************************************************)
(* Field normalization (DatabaseTool._process_chunk / _basic_cleaning,     *)
(* SRAGDataProcessor._preprocess_chunk / _clean_basic_fields /             *)
(* _convert_data_types).                                                   *)
(*                                                                         *)
(* A categorical cell is a text, a number or NaN.  An age cell is an       *)
(* integer, NaNAge (missing) or JunkAge (a text that is not a number).     *)
(* A notification-date cell is a cell of the date-parsing model.           *)
(***************************************************************************)
Str(x) == [t |-> "str", s |-> x, n |-> 0]

Num(k) == [t |-> "num", s |-> "", n |-> k]

Nan == [t |-> "nan", s |-> "", n |-> 0]

NaNAge == 0 - 1000

JunkAge == 0 - 1001

\* pd.to_numeric(text, errors='coerce'); NaNAge stands for NaN
NumericOfText(x) ==
    CASE x \in {"1", "1.0", "01"} -> 1
      [] x \in {"2", "2.0"} -> 2
      [] x \in {"3", "3.0"} -> 3
      [] x \in {"7", "7.0"} -> 7
      [] x \in {"9", "9.0"} -> 9
      [] OTHER -> NaNAge

\* str(float) of a whole number
FloatText(k) ==
    CASE k = 1 -> "1.0"
      [] k = 2 -> "2.0"
      [] k = 3 -> "3.0"
      [] k = 7 -> "7.0"
      [] k = 9 -> "9.0"
      [] OTHER -> "nan"

\* Series.astype(str) on one cell (a numeric column holding NaN is float)
AsTypeStr(c) ==
    CASE c.t = "str" -> c.s
      [] c.t = "num" -> FloatText(c.n)
      [] OTHER -> "nan"

\* pd.to_numeric(column, errors='coerce') on one cell
ToNumericCell(c) ==
    CASE c.t = "num" -> c
      [] c.t = "str" -> IF NumericOfText(c.s) = NaNAge THEN Nan ELSE Num(NumericOfText(c.s))
      [] OTHER -> Nan

\* str.replace('.0', '', regex=False)
RemoveDotZero(x) ==
    CASE x \in {"1.0"} -> "1"
      [] x \in {"2.0"} -> "2"
      [] x \in {"3.0"} -> "3"
      [] x \in {"7.0"} -> "7"
      [] x \in {"9.0"} -> "9"
      [] OTHER -> x

\* pd.to_numeric on the age column followed by the [0, 120] range rule
CleanAge(a) == IF a = JunkAge \/ a = NaNAge \/ a < 0 \/ a > MaxAge THEN NaNAge ELSE a

\* a parsed value as a cell of the column
CellOfParsed(v) ==
    IF v = NaTCell THEN [style |-> "nan", d |-> 0, m |-> 0] ELSE [style |-> "ts", d |-> v.d, m |-> v.m]

\* Series.isna() of a date cell
IsNaCell(c) == c.style = "nan"

\* datetime comparison a <= b of two parsed cells
DateLE(a, b) == a.m < b.m \/ (a.m = b.m /\ a.d <= b.d)

\* DatabaseTool._basic_cleaning, one categorical column cell
DbCleanCategorical(c, valid_values) ==
    LET x == RemoveDotZero(AsTypeStr(c))
    IN  IF x \in valid_values \cup {"nan", "NaN", ""} THEN Str(x) ELSE Nan

\* DatabaseTool._parse_all_dates on the notification date of every row
DbParseRows(rows) ==
    [i \in 1..Len(rows) |->
        [rows[i] EXCEPT !.DT_NOTIFIC = CellOfParsed(ParseWithFormat("%Y-%m-%d", rows[i].DT_NOTIFIC))]]

\* DatabaseTool._basic_cleaning
DbBasicCleaning(rows) ==
    LET kept == SelectSeq(rows, LAMBDA r : ~IsNaCell(r.DT_NOTIFIC))
    IN  [i \in 1..Len(kept) |->
            [kept[i] EXCEPT !.EVOLUCAO = DbCleanCategorical(kept[i].EVOLUCAO, {"1", "2", "3", "9"}),
                            !.UTI = DbCleanCategorical(kept[i].UTI, {"1", "2", "9"}),
                            !.HOSPITAL = DbCleanCategorical(kept[i].HOSPITAL, {"1", "2", "9"}),
                            !.NU_IDADE_N = CleanAge(kept[i].NU_IDADE_N)]]

\* the chunk cleaned without the filter on the notification date
DbProcessChunk_NoFilter(rows, start_dt, end_dt) == DbBasicCleaning(DbParseRows(rows))

\* DatabaseTool._process_chunk: parse, keep the rows of the window, clean
DbProcessChunk(rows, start_dt, end_dt) ==
    LET parsed_rows == DbParseRows(rows)
        in_window == SelectSeq(parsed_rows, LAMBDA r :
                        /\ ~IsNaCell(r.DT_NOTIFIC)
                        /\ DateLE(start_dt, r.DT_NOTIFIC)
                        /\ DateLE(r.DT_NOTIFIC, end_dt))
    IN  DbBasicCleaning(in_window)

\* the normalization steps of the database tool applied to a dataset
DbNormalize(rows) == DbBasicCleaning(DbParseRows(rows))

\* SRAGDataProcessor._preprocess_chunk: the notification date is parsed,
\* texts are stripped and the tokens '', 'nan', 'NaN', 'NAN' become NaN
ProcPreprocessCell(c) == IF c.t = "str" /\ c.s \in {"", "nan", "NaN", "NAN"} THEN Nan ELSE c

ProcPreprocessChunk(rows) ==
    [i \in 1..Len(rows) |->
        [rows[i] EXCEPT !.DT_NOTIFIC = CellOfParsed(ParseWithFormat("%Y-%m-%d", rows[i].DT_NOTIFIC)),
                        !.EVOLUCAO = ProcPreprocessCell(rows[i].EVOLUCAO),
                        !.UTI = ProcPreprocessCell(rows[i].UTI),
                        !.HOSPITAL = ProcPreprocessCell(rows[i].HOSPITAL)]]

\* SRAGDataProcessor._clean_basic_fields, one categorical cell
ProcCleanCategorical(c) ==
    IF AsTypeStr(c) \in {"nan", "NaN", "NAN", "", "None", "none"} THEN Nan ELSE Str(AsTypeStr(c))

\* SRAGDataProcessor._clean_basic_fields.  has_rows_removed tells whether
\* processing_stats holds the key 'rows_removed' (set by process() only):
\* without it the counter update raises KeyError once rows were dropped,
\* the handler logs it and returns the dataset with the rows dropped and
\* the categorical fields untouched.
ProcCleanBasicFields(rows, has_rows_removed) ==
    LET kept == SelectSeq(rows, LAMBDA r : ~IsNaCell(r.DT_NOTIFIC))
    IN  IF Len(kept) < Len(rows) /\ ~has_rows_removed
        THEN kept
        ELSE [i \in 1..Len(kept) |->
                [kept[i] EXCEPT !.EVOLUCAO = ProcCleanCategorical(kept[i].EVOLUCAO),
                                !.UTI = ProcCleanCategorical(kept[i].UTI),
                                !.HOSPITAL = ProcCleanCategorical(kept[i].HOSPITAL)]]

\* SRAGDataProcessor._convert_data_types
ProcConvertDataTypes(rows) ==
    [i \in 1..Len(rows) |->
        [rows[i] EXCEPT !.NU_IDADE_N = CleanAge(rows[i].NU_IDADE_N),
                        !.UTI = ToNumericCell(rows[i].UTI)]]

\* SRAGDataProcessor._filter_by_date_range; NoBound stands for None
NoBound == [style |-> "none", d |-> 0, m |-> 0]

ProcFilterByDateRange(rows, start_dt, end_dt) ==
    SelectSeq(rows, LAMBDA r :
        /\ start_dt # NoBound => (~IsNaCell(r.DT_NOTIFIC) /\ DateLE(start_dt, r.DT_NOTIFIC))
        /\ end_dt # NoBound => (~IsNaCell(r.DT_NOTIFIC) /\ DateLE(r.DT_NOTIFIC, end_dt)))

\* the normalization steps of _process_data_pipeline
ProcPipelineNormalize(rows, has_rows_removed) ==
    ProcConvertDataTypes(ProcCleanBasicFields(rows, has_rows_removed))

\* the normalization steps of load_and_process: chunk preprocessing,
\* then the steps of the pipeline
ProcNormalize(rows, has_rows_removed) ==
    ProcPipelineNormalize(ProcPreprocessChunk(rows), has_rows_removed)

\* pd.cut(age, bins=[0, 2, 12, 18, 60, 120], include_lowest=True): the
\* intervals are closed on the right, the first one also on the left
ProcAgeBracket(age) ==
    CASE age = NaNAge \/ age < 0 \/ age > 120 -> "missing"
      [] age <= 2 -> "Lactente"
      [] age <= 12 -> "Crianca"
      [] age <= 18 -> "Adolescente"
      [] age <= 60 -> "Adulto"
      [] OTHER -> "Idoso"

\* the column is compared as text: more than half of its values are NaN
\* after pd.to_numeric(errors='coerce')
ComparedAsText(cells) ==
    2 * Len(SelectSeq(cells, LAMBDA c : ToNumericCell(c) = Nan)) > Len(cells)

\* variant: the column is always compared numerically
CodeFlag_NumericOnly(cells, c) ==
    IF ToNumericCell(c) = Num(1) THEN 1 ELSE 0

\* TEVE_UTI / TEVE_HOSPITALIZACAO of one cell of the column
CodeFlag(cells, c) ==
    IF ComparedAsText(cells)
    THEN IF AsTypeStr(c) \in {"1", "1.0"} THEN 1 ELSE 0
    ELSE IF ToNumericCell(c) = Num(1) THEN 1 ELSE 0

\* SRAGDataProcessor._create_derived_fields: age bracket, critical-care
\* flag and hospitalization flag of every row
ProcDerivedFlags(rows) ==
    LET uti == [i \in 1..Len(rows) |-> rows[i].UTI]
        hospital == [i \in 1..Len(rows) |-> rows[i].HOSPITAL]
    IN  [i \in 1..Len(rows) |->
            [FAIXA_ETARIA |-> ProcAgeBracket(rows[i].NU_IDADE_N),
             TEVE_UTI |-> CodeFlag(uti, rows[i].UTI),
             TEVE_HOSPITALIZACAO |-> CodeFlag(hospital, rows[i].HOSPITAL)]]

(***************************************************************************)
(* State machine of one dataset going through ingestion and                *)
(* normalization, by the database tool (path "db"), by the processor's     *)
(* load_and_process (path "load") or by the processor's process() (path    *)
(* "process"); the normalization steps may then be applied once more.      *)
(* frame.first keeps the rows as they were after the first application.    *)
(***************************************************************************)
MaxCodeRows == 3

NormToday == [style |-> "ts", d |-> 10, m |-> 3]

NormStart == [style |-> "ts", d |-> 1, m |-> 3]

NormFuture == [style |-> "ts", d |-> 28, m |-> 3]

DefaultNormRow == [DT_NOTIFIC |-> [style |-> "iso", d |-> 5, m |-> 3], NU_IDADE_N |-> 30,
                   EVOLUCAO |-> Str("1"), UTI |-> Str("2"), HOSPITAL |-> Str("1")]

AgeChoices == {0 - 1, 0, 1, 2, 3, 12, 13, 18, 19, 60, 61, MaxAge, MaxAge + 1, JunkAge, NaNAge}

AgeRows == {[DefaultNormRow EXCEPT !.NU_IDADE_N = a] : a \in AgeChoices}

CodeCells == {Str("1"), Str("1.0"), Str("01"), Str("2"), Str("7"), Str("x"), Str("None"), Nan}

\* rows whose three codes are written alike, and rows whose ICU code is a
\* spelling of 1 while the hospitalization code is not a number
CodeRows == {[DefaultNormRow EXCEPT !.EVOLUCAO = c, !.UTI = c, !.HOSPITAL = c] : c \in CodeCells}
            \cup {[DefaultNormRow EXCEPT !.EVOLUCAO = c, !.UTI = c, !.HOSPITAL = Str("x")] :
                     c \in {Str("1"), Str("01")}}

NotificationCells == {[style |-> "iso", d |-> 5, m |-> 3], [style |-> "iso", d |-> 20, m |-> 3],
                      [style |-> "br", d |-> 5, m |-> 3], [style |-> "ts", d |-> 5, m |-> 3],
                      [style |-> "nan", d |-> 0, m |-> 0]}

NotificationRows == {[DefaultNormRow EXCEPT !.DT_NOTIFIC = c, !.EVOLUCAO = e] :
                       c \in NotificationCells, e \in {Str("1"), Str("None"), Str("7")}}

NormFrames == SeqsUpTo(AgeRows, MaxRows) \cup SeqsUpTo(NotificationRows, MaxRows)
              \cup SeqsUpTo(CodeRows, MaxCodeRows)

InitNormalize ==
    /\ data = [cols |-> {}, rows |-> << >>]
    /\ report_date = Day0
    /\ now = [day |-> Day0, tod |-> 0]
    /\ result = NoResult
    /\ report = NoReport
    /\ derived = NoDerived
    /\ column = NoColumn
    /\ parsed = NoParsed
    /\ \E rows \in NormFrames, k \in BOOLEAN :
          frame = [NoFrame EXCEPT !.raw = rows, !.rows = rows, !.has_rows_removed = k]
    /\ quality = NoQuality
    /\ source = NoSource
    /\ heap = << >>
    /\ cache = << >>
    /\ held = {}
    /\ loaded = NoLoaded
    /\ wallclock = 0

\* DatabaseTool.load_srag_data over a source of one chunk holding the rows
DatabaseLoad ==
    /\ frame.passes = 0
    /\ \E end_dt \in {NormToday, NormFuture} :
          LET rows == DbProcessChunk(frame.raw, NormStart, end_dt)
          IN  frame' = [frame EXCEPT !.path = "db", !.status = "ok", !.passes = 1,
                                     !.rows = rows, !.first = rows]
    /\ UNCHANGED <<data, report_date, now, result, report, derived, column, parsed>>
    /\ UNCHANGED <<quality, source, heap, cache, held, loaded, wallclock>>

\* SRAGDataProcessor.load_and_process over a source holding the rows
ProcessorLoadAndProcess ==
    /\ frame.passes = 0
    /\ \E end_dt \in {NoBound, NormToday} :
          LET loaded_rows == ProcPreprocessChunk(frame.raw)
              filtered == IF end_dt = NoBound THEN loaded_rows
                          ELSE ProcFilterByDateRange(loaded_rows, NoBound, end_dt)
              rows == ProcPipelineNormalize(filtered, frame.has_rows_removed)
          IN  frame' = [frame EXCEPT !.path = "load", !.status = "ok", !.passes = 1,
                                     !.rows = rows, !.first = rows, !.flags = ProcDerivedFlags(rows)]
    /\ UNCHANGED <<data, report_date, now, result, report, derived, column, parsed>>
    /\ UNCHANGED <<quality, source, heap, cache, held, loaded, wallclock>>

\* SRAGDataProcessor.process on a dataset already in memory
ProcessorProcess ==
    /\ frame.passes = 0
    /\ IF Len(frame.raw) = 0
       THEN frame' = [frame EXCEPT !.path = "process", !.status = "ValueError", !.passes = 1]
       ELSE LET rows == ProcPipelineNormalize(frame.raw, TRUE)
            IN  frame' = [frame EXCEPT !.path = "process", !.status = "ok", !.passes = 1,
                                       !.rows = rows, !.first = rows, !.flags = ProcDerivedFlags(rows),
                                       !.has_rows_removed = TRUE]
    /\ UNCHANGED <<data, report_date, now, result, report, derived, column, parsed>>
    /\ UNCHANGED <<quality, source, heap, cache, held, loaded, wallclock>>

\* the normalization steps of the same component applied once more
NormalizeAgain ==
    /\ frame.passes = 1
    /\ frame.status = "ok"
    /\ frame' = [frame EXCEPT !.passes = 2,
                              !.rows = CASE frame.path = "db" -> DbNormalize(frame.rows)
                                         [] frame.path = "load" -> ProcNormalize(frame.rows, frame.has_rows_removed)
                                         [] OTHER -> ProcPipelineNormalize(frame.rows, frame.has_rows_removed)]
    /\ UNCHANGED <<data, report_date, now, result, report, derived, column, parsed>>
    /\ UNCHANGED <<quality, source, heap, cache, held, loaded, wallclock>>

NextNormalize ==
    \/ DatabaseLoad
    \/ ProcessorLoadAndProcess
    \/ ProcessorProcess
    \/ NormalizeAgain

SpecNormalize == InitNormalize /\ [][NextNormalize]_vars

(***************************************************************************)
(* Properties of normalization and of the derived flags.                   *)
(***************************************************************************)
\* the dataset went through the processor and its derived fields exist
Processed == frame.path \in {"load", "process"} /\ frame.status = "ok" /\ frame.passes >= 1

\* the documented age brackets: lower bound inclusive
DocumentedBracket(age) ==
    CASE age = NaNAge \/ age < 0 \/ age > 120 -> "missing"
      [] age < 2 -> "Lactente"
      [] age < 12 -> "Crianca"
      [] age < 18 -> "Adolescente"
      [] age < 60 -> "Adulto"
      [] OTHER -> "Idoso"

\* C11: the age bracket of every processed record follows the bins 0-2,
\* 2-12, 12-18, 18-60, 60-120 with the lower bound inclusive (2 is child,
\* 12 adolescent, 18 adult, 60 and 120 elderly); an age outside [0, 120]
\* is missing and has no bracket.
C11_AgeBracketLowerInclusive ==
    Processed =>
        \A i \in 1..Len(frame.first) :
            frame.flags[i].FAIXA_ETARIA = DocumentedBracket(frame.first[i].NU_IDADE_N)

\* the number a code is read as, NaNAge when it is missing or not a number
WrittenNumber(c) == IF c.t = "str" THEN NumericOfText(c.s) ELSE NaNAge

WrittenOne(c) == c \in {Str("1"), Str("1.0")}

\* no row was dropped, so row i of the result is row i of the input
NoRowDropped == Len(frame.first) = Len(frame.raw)

\* C12 as stated: each flag is 1 exactly for the records whose code is
\* written "1" or "1.0", whichever branch the column takes.
C12_FlagByWrittenCode ==
    (Processed /\ NoRowDropped) =>
        \A i \in 1..Len(frame.raw) :
            /\ frame.flags[i].TEVE_UTI = (IF WrittenOne(frame.raw[i].UTI) THEN 1 ELSE 0)
            /\ frame.flags[i].TEVE_HOSPITALIZACAO = (IF WrittenOne(frame.raw[i].HOSPITAL) THEN 1 ELSE 0)

\* more than half of the hospitalization codes are missing or not numbers
HospitalMostlyNotNumeric ==
    2 * Cardinality({i \in 1..Len(frame.raw) : WrittenNumber(frame.raw[i].HOSPITAL) = NaNAge})
        > Len(frame.raw)

\* C12 (amended): the critical-care flag is 1 exactly when the ICU code
\* reads as the number 1; the hospitalization flag is 1 exactly when the
\* code is written "1" or "1.0" if more than half of the column is missing
\* or not numeric, and exactly when the code reads as the number 1
\* otherwise; a code written "1" or "1.0" always gives 1 and a missing
\* code always gives 0.
C12_FlagByBranch ==
    (Processed /\ NoRowDropped) =>
        \A i \in 1..Len(frame.raw) :
            /\ frame.flags[i].TEVE_UTI = (IF WrittenNumber(frame.raw[i].UTI) = 1 THEN 1 ELSE 0)
            /\ frame.flags[i].TEVE_HOSPITALIZACAO =
                  (IF HospitalMostlyNotNumeric
                   THEN IF WrittenOne(frame.raw[i].HOSPITAL) THEN 1 ELSE 0
                   ELSE IF WrittenNumber(frame.raw[i].HOSPITAL) = 1 THEN 1 ELSE 0)
            /\ WrittenOne(frame.raw[i].HOSPITAL) => frame.flags[i].TEVE_HOSPITALIZACAO = 1
            /\ frame.raw[i].HOSPITAL = Nan => frame.flags[i].TEVE_HOSPITALIZACAO = 0

\* a processed dataset whose hospitalization column is compared as text,
\* with one record written "1" flagged and one written "01" not flagged
C12_Witness ==
    /\ Processed /\ NoRowDropped /\ HospitalMostlyNotNumeric
    /\ \E i, j \in 1..Len(frame.raw) :
          /\ frame.raw[i].HOSPITAL = Str("1") /\ frame.flags[i].TEVE_HOSPITALIZACAO = 1
          /\ frame.raw[j].UTI = Str("01") /\ frame.flags[j].TEVE_UTI = 1

\* an outcome code that is one of the four defined codes or missing
OutcomeDefinedOrMissing(c) ==
    c = Nan \/ c \in {Str("1"), Str("2"), Str("3"), Str("9"), Str("nan")}

\* C13: after ingestion and normalization every record has a notification
\* date that is present and not later than today, an age that is missing
\* or within [0, 120], and an outcome code that is defined or missing.
C13_IngestedRecordsValid ==
    (frame.path \in {"db", "load"} /\ frame.status = "ok") =>
        \A i \in 1..Len(frame.rows) :
            /\ frame.rows[i].DT_NOTIFIC.style = "ts"
            /\ DateLE(frame.rows[i].DT_NOTIFIC, NormToday)
            /\ frame.rows[i].NU_IDADE_N = NaNAge \/ frame.rows[i].NU_IDADE_N \in 0..MaxAge
            /\ OutcomeDefinedOrMissing(frame.rows[i].EVOLUCAO)

\* C14: applying the normalization steps a second time leaves the
\* dataset as it was after the first time: same rows, same values, same
\* fields missing.
C14_NormalizeIdempotent ==
    frame.passes = 2 => frame.rows = frame.first

(***************************************************************************)
(* Data-quality validation (SRAGDataValidator).  A dataset is a frame     *)
(* with a set of columns, a storage form for its date columns ("ts":       *)
(* datetime dtype, "iso": text written YYYY-MM-DD) and rows; a date cell   *)
(* is a day number or NaT, a NU_NOTIFIC cell a number or NaNAge.  A        *)
(* validation result is a dictionary: a function from keys to values.      *)
(***************************************************************************)

MaxQualityRows == 2

IsNull(v) == v \in {NaT, NaNAge}

\* dict[k] = v on a dictionary that may or may not hold k
With(d, k, v) == [x \in DOMAIN d \cup {k} |-> IF x = k THEN v ELSE d[x]]

\* dict.update(other): the keys of other replace those of dict
Update(d, other) ==
    [x \in DOMAIN d \cup DOMAIN other |-> IF x \in DOMAIN other THEN other[x] ELSE d[x]]

\* dict.get(k, default)
Get(d, k, default) == IF k \in DOMAIN d THEN d[k] ELSE default

RequiredFields == <<"DT_NOTIFIC", "NU_NOTIFIC">>

DateFields ==
    <<"DT_NOTIFIC", "DT_EVOLUCA", "DT_INTERNA", "DT_SIN_PRI", "DT_NASC", "DT_COLETA", "DT_PCR", "DT_DIGITA">>

TemporalRules == <<<<"DT_NOTIFIC", "DT_EVOLUCA">>, <<"DT_SIN_PRI", "DT_NOTIFIC">>, <<"DT_INTERNA", "DT_NOTIFIC">>>>

KeyFields == <<"DT_NOTIFIC", "SG_UF_NOT", "NU_IDADE_N", "CS_SEXO">>

\* data[field].isnull().sum()
NullCount(qf, field) == Cardinality({i \in 1..Len(qf.rows) : IsNull(qf.rows[i][field])})

\* round((null_count / len(data)) * 100, 2), in hundredths of a percent
NullPercentage(qf, field) == RoundHalfEven(NullCount(qf, field) * 10000, Len(qf.rows))

\* the 'completeness' dictionary the validator builds: one entry for each
\* required field that is a column of the dataset
CompletenessDict(qf) ==
    [f \in {RequiredFields[i] : i \in 1..Len(RequiredFields)} \cap qf.columns |->
        [null_count |-> NullCount(qf, f),
         null_percentage |-> IF Len(qf.rows) = 0 THEN 0 ELSE NullPercentage(qf, f)]]

\* The completeness validator fills 'completeness', 'errors' and 'warnings'
\* and then stores the per-column table under completeness_result
\* ['statistics'], a key the dictionary was never given: the KeyError is
\* caught and the validator returns a dictionary holding one error only.
ValidateCompleteness(qf) == [errors |-> <<"completude: 'statistics'">>]

\* pd.to_datetime(sample, format='%d/%m/%Y', errors='raise') on the
\* non-null cells of a text column: it raises when a cell is written
\* YYYY-MM-DD, and accepts an empty sample
RECURSIVE TypeWarnings(_, _)
TypeWarnings(qf, fields) ==
    IF fields = << >> THEN << >>
    ELSE LET f == Head(fields)
             bad == /\ f \in qf.columns
                    /\ qf.dates # "ts"
                    /\ \E i \in 1..Len(qf.rows) : ~IsNull(qf.rows[i][f])
         IN  (IF bad THEN <<f>> ELSE << >>) \o TypeWarnings(qf, Tail(fields))

ValidateDataTypes(qf) ==
    LET base == [data_types |-> {f \in qf.columns : \E i \in 1..Len(DateFields) : DateFields[i] = f}]
        ws == TypeWarnings(qf, DateFields)
    IN  IF ws # << >> THEN With(base, "warnings", ws) ELSE base

\* NU_IDADE_N is the only ranged field and no dataset here holds it
ValidateRanges(qf) == [range_validation |-> {}]

\* none of the categorical fields is a column of these datasets
ValidateCategoricalValues(qf) == [categorical_validation |-> {}]

\* one error for each rule whose two columns are present and where some
\* row has both dates and the later one before the earlier one
RECURSIVE TemporalErrors(_, _)
TemporalErrors(qf, rules) ==
    IF rules = << >> THEN << >>
    ELSE LET earlier == Head(rules)[1]
             later == Head(rules)[2]
             bad == /\ {earlier, later} \subseteq qf.columns
                    /\ \E i \in 1..Len(qf.rows) :
                          /\ ~IsNull(qf.rows[i][earlier])
                          /\ ~IsNull(qf.rows[i][later])
                          /\ qf.rows[i][later] < qf.rows[i][earlier]
         IN  (IF bad THEN <<later>> ELSE << >>) \o TemporalErrors(qf, Tail(rules))

ValidateTemporalConsistency(qf) ==
    LET base == [temporal_validation |-> {r \in {TemporalRules[i] : i \in 1..Len(TemporalRules)} :
                                             {r[1], r[2]} \subseteq qf.columns}]
        es == TemporalErrors(qf, TemporalRules)
    IN  IF es # << >> THEN With(base, "errors", es) ELSE base

\* without UTI, symptom and dose columns the first rule fails inside its
\* own handler and the other two find no violation
ValidateBusinessRules(qf) ==
    [business_rules_validation |-> {"death_without_symptoms", "vaccination_consistency"}]

\* NU_IDADE_N is the only field examined and no dataset here holds it
DetectOutliers(qf) == [outlier_detection |-> {}]

\* the row restricted to the given columns
Project(row, cols) == [c \in cols |-> row[c]]

\* data.duplicated(subset=cols).sum(): rows equal to an earlier row
Duplicated(qf, cols) ==
    Cardinality({i \in 1..Len(qf.rows) :
                    \E j \in 1..(i - 1) : Project(qf.rows[j], cols) = Project(qf.rows[i], cols)})

ValidateDuplicates(qf) ==
    LET complete_duplicates == Duplicated(qf, qf.columns)
        available_keys == {KeyFields[i] : i \in 1..Len(KeyFields)} \cap qf.columns
        key_duplicates == IF available_keys # {} THEN Duplicated(qf, available_keys) ELSE 0
        base == [duplicate_analysis |->
                    [complete_duplicates |-> complete_duplicates,
                     key_field_duplicates |-> key_duplicates]]
        ws == (IF complete_duplicates > 0 THEN <<"complete">> ELSE << >>)
              \o (IF key_duplicates > complete_duplicates THEN <<"key">> ELSE << >>)
    IN  IF ws # << >> THEN With(base, "warnings", ws) ELSE base

\* (points - 10*errors - 2*warnings) scaled by the mean completeness, as
\* the fraction num/den of a hundredth of a point
ScaledByCompleteness(points, completeness) ==
    LET m == Cardinality(DOMAIN completeness)
        RECURSIVE Total(_)
        Total(S) == IF S = {} THEN 0
                    ELSE LET f == CHOOSE x \in S : TRUE
                         IN  (10000 - completeness[f].null_percentage) + Total(S \ {f})
    IN  IF m = 0 THEN [num |-> points * 100, den |-> 1]
        ELSE [num |-> points * Total(DOMAIN completeness), den |-> m * 100]

\* max(0.0, min(100.0, score)) then round(score, 2), in hundredths
ClampAndRound(num, den) ==
    IF num <= 0 THEN 0
    ELSE IF num >= 10000 * den THEN 10000
    ELSE RoundHalfEven(num, den)

\* _calculate_quality_score, in hundredths of a point; a division by a
\* total of zero records is caught and gives 0.0
CalculateQualityScore(validation_result) ==
    LET error_count == Len(Get(validation_result, "errors", << >>))
        warning_count == Len(Get(validation_result, "warnings", << >>))
        completeness == Get(validation_result, "completeness", << >>)
        scaled == ScaledByCompleteness(100 - error_count * 10 - warning_count * 2, completeness)
        total_records == validation_result["total_records"]
    IN  IF "duplicate_analysis" \in DOMAIN validation_result
        THEN IF total_records = 0 THEN 0
             ELSE ClampAndRound(
                    scaled.num * total_records
                      - 2000 * validation_result["duplicate_analysis"].key_field_duplicates * scaled.den,
                    scaled.den * total_records)
        ELSE ClampAndRound(scaled.num, scaled.den)

\* validate_data_quality: the eight validators update one dictionary in
\* turn, then the score is computed from that dictionary
ValidateDataQualityOf(qf) ==
    LET r0 == [passed |-> TRUE, total_records |-> Len(qf.rows),
               errors |-> << >>, warnings |-> << >>, statistics |-> {}, quality_score |-> 0]
        r1 == Update(r0, ValidateCompleteness(qf))
        r2 == Update(r1, ValidateDataTypes(qf))
        r3 == Update(r2, ValidateRanges(qf))
        r4 == Update(r3, ValidateCategoricalValues(qf))
        r5 == Update(r4, ValidateTemporalConsistency(qf))
        r6 == Update(r5, ValidateBusinessRules(qf))
        r7 == Update(r6, DetectOutliers(qf))
        r8 == Update(r7, ValidateDuplicates(qf))
    IN  With(r8, "quality_score", CalculateQualityScore(r8))

(***************************************************************************)
(* SpecQuality: one dataset, validated once.                               *)
(***************************************************************************)

QualityDays == {NaT, 1, 2}

QualityRows ==
    [DT_NOTIFIC : QualityDays, DT_EVOLUCA : QualityDays, DT_SIN_PRI : {NaT, 2}, NU_NOTIFIC : {NaNAge, 1}]

QualityColumns ==
    {{"DT_NOTIFIC", "DT_EVOLUCA", "DT_SIN_PRI", "NU_NOTIFIC"}, {"DT_NOTIFIC", "DT_EVOLUCA", "DT_SIN_PRI"}}

\* a column that the frame does not hold has no cells: they are fixed to
\* the missing value so that each dataset is counted once
QualityFrames ==
    {qf \in [columns : QualityColumns, dates : {"ts", "iso"}, rows : SeqsUpTo(QualityRows, MaxQualityRows)] :
        "NU_NOTIFIC" \notin qf.columns =>
            \A i \in 1..Len(qf.rows) : qf.rows[i].NU_NOTIFIC = NaNAge}

MaxValidations == 2

\* the validator's counters after construction
NoValidations ==
    [total_validations |-> 0, passed_validations |-> 0, failed_validations |-> 0, warnings_generated |-> 0]

\* the counters after one more report: 'passed' is read from the report
UpdateValidationStats(stats, validation_result) ==
    [total_validations |-> stats.total_validations + 1,
     passed_validations |-> stats.passed_validations + (IF validation_result["passed"] THEN 1 ELSE 0),
     failed_validations |-> stats.failed_validations + (IF validation_result["passed"] THEN 0 ELSE 1),
     warnings_generated |-> stats.warnings_generated + Len(validation_result["warnings"])]

InitQuality ==
    /\ data = [cols |-> {}, rows |-> << >>]
    /\ report_date = Day0
    /\ now = [day |-> Day0, tod |-> 0]
    /\ result = NoResult
    /\ report = NoReport
    /\ derived = NoDerived
    /\ column = NoColumn
    /\ parsed = NoParsed
    /\ frame = NoFrame
    /\ source = NoSource
    /\ heap = << >>
    /\ cache = << >>
    /\ held = {}
    /\ loaded = NoLoaded
    /\ wallclock = 0
    /\ \E qf \in QualityFrames :
          quality = [op |-> "ready", data |-> qf, result |-> << >>, validation_stats |-> NoValidations]

ValidateDataQuality ==
    /\ quality.op \in {"ready", "validated"}
    /\ quality.validation_stats.total_validations < MaxValidations
    /\ LET validation_result == ValidateDataQualityOf(quality.data)
       IN  quality' = [quality EXCEPT !.op = "validated", !.result = validation_result,
                                      !.validation_stats = UpdateValidationStats(@, validation_result)]
    /\ UNCHANGED <<data, report_date, now, result, report, derived, column, parsed>>
    /\ UNCHANGED <<frame, source, heap, cache, held, loaded, wallclock>>

NextQuality == ValidateDataQuality

SpecQuality == InitQuality /\ [][NextQuality]_vars

\* the 'errors' and 'warnings' lists of the returned result
ReportedErrors == Len(quality.result["errors"])

ReportedWarnings == Len(quality.result["warnings"])

\* the documented score of a validated dataset, in hundredths of a point
DocumentedScore ==
    LET qf == quality.data
        scaled == ScaledByCompleteness(100 - ReportedErrors * 10 - ReportedWarnings * 2,
                                       CompletenessDict(qf))
        key_duplicates == quality.result["duplicate_analysis"].key_field_duplicates
    IN  ClampAndRound(scaled.num * Len(qf.rows) - 2000 * key_duplicates * scaled.den,
                      scaled.den * Len(qf.rows))

\* C15: the quality score of a validated, non-empty dataset is 100, minus
\* 10 for each error and 2 for each warning of the result, times the
\* average completeness of its required fields, minus 20 times the share
\* of key duplicates, clamped to [0, 100].
C15_QualityScoreAsDocumented ==
    (quality.op = "validated" /\ Len(quality.data.rows) > 0) =>
        /\ quality.result["quality_score"] = DocumentedScore
        /\ quality.result["quality_score"] \in 0..10000

\* the score of every validated dataset, empty or not, lies in [0, 100]
QualityScoreInRange ==
    quality.op = "validated" => quality.result["quality_score"] \in 0..10000

(***************************************************************************)
(* Loading with a cache (DatabaseTool.load_srag_data) and without one      *)
(* (SRAGDataProcessor.load_and_process).  The source file is a sequence of *)
(* chunks, each a sequence of rows; its content stays the same during a    *)
(* run, only its existence changes.  Datasets are objects: heap[id] is the *)
(* content of the dataset with identity id, so that a caller changing the  *)
(* dataset it was given changes every holder of the same identity.  The    *)
(* clock counts minutes.                                                   *)
(***************************************************************************)

MaxLoads == 2

MaxLoaderTicks == 2

\* minutes between two observations of the clock
TickMinutes == 30

\* max_chunks
MaxChunks == 20

\* timedelta(hours=1), in minutes
CacheTTL == 60

\* cache_key = f"{start_date}_{end_date}"
CacheKey(start_dt, end_dt) == <<start_dt, end_dt>>

\* cache_age < timedelta(hours=1), mutated to accept an entry of exactly
\* one hour
CacheFresh_Inclusive(cache_age) == cache_age <= CacheTTL

\* cache_age < timedelta(hours=1)
CacheFresh(cache_age) == cache_age < CacheTTL

\* chunk_count > max_chunks, mutated so that the loop never stops early
ExceedsCap_Never(chunk_count) == FALSE

\* chunk_count > max_chunks
ExceedsCap(chunk_count) == chunk_count > MaxChunks

\* The chunk loop: the iterator hands out chunk chunk_count + 1, the
\* counter is raised and compared with the cap, the chunk is processed
\* and, when rows remain, appended.  acc.trace lists these steps in order.
RECURSIVE ReadChunks(_, _, _, _, _)
ReadChunks(file, start_dt, end_dt, chunk_count, acc) ==
    IF chunk_count = Len(file) THEN acc
    ELSE LET count == chunk_count + 1
             read == Append(acc.trace, <<"read", count>>)
         IN  IF ExceedsCap(count)
             THEN [acc EXCEPT !.trace = Append(read, <<"break", count>>)]
             ELSE LET processed_chunk == DbProcessChunk(file[count], start_dt, end_dt)
                      done == Append(read, <<"process", count>>)
                  IN  IF processed_chunk # << >>
                      THEN ReadChunks(file, start_dt, end_dt, count,
                                      [chunks |-> Append(acc.chunks, processed_chunk),
                                       trace |-> Append(done, <<"append", count>>)])
                      ELSE ReadChunks(file, start_dt, end_dt, count,
                                      [chunks |-> acc.chunks, trace |-> done])

\* pd.concat(chunks, ignore_index=True); pd.DataFrame() when there is none
RECURSIVE Concat(_)
Concat(chunks) == IF chunks = << >> THEN << >> ELSE Head(chunks) \o Concat(Tail(chunks))

\* return cache_data['data'], mutated: the cached object itself is
\* handed to the caller
HitFrame_Alias(h, cached) == [heap |-> h, id |-> cached]

\* return cache_data['data'].copy(): a new object with the same content
HitFrame(h, cached) == [heap |-> Append(h, h[cached]), id |-> Len(h) + 1]

\* data.copy() stored under the key while data itself is returned
StoreFrame(h, rows) == [heap |-> h \o <<rows, rows>>, returned |-> Len(h) + 1, cached |-> Len(h) + 2]

\* what a call leaves for its caller to see
Outcome(op, calls, key, use_cache, existed, entry_age, status, hit, id, rows, trace) ==
    [op |-> op, calls |-> calls, key |-> key, use_cache |-> use_cache, existed |-> existed,
     entry_age |-> entry_age, status |-> status, hit |-> hit, frame |-> id, rows |-> rows,
     trace |-> trace]

LoadSragDataCall(start_dt, end_dt, use_cache) ==
    LET cache_key == CacheKey(start_dt, end_dt)
        has_entry == cache_key \in DOMAIN cache
        cache_age == IF has_entry THEN wallclock - cache[cache_key].timestamp ELSE 0 - 1
        out(status, hit, id, rows, trace) ==
            Outcome("load_srag_data", loaded.calls + 1, cache_key, use_cache, source.exists,
                    cache_age, status, hit, id, rows, trace)
    IN  IF use_cache /\ has_entry /\ CacheFresh(cache_age)
        THEN LET copy == HitFrame(heap, cache[cache_key].data)
             IN  /\ heap' = copy.heap
                 /\ held' = held \cup {copy.id}
                 /\ loaded' = out("ok", TRUE, copy.id, copy.heap[copy.id], << >>)
                 /\ UNCHANGED cache
        ELSE IF ~source.exists
        THEN /\ loaded' = out("FileNotFoundError", FALSE, 0, << >>, << >>)
             /\ UNCHANGED <<heap, held, cache>>
        ELSE LET acc == ReadChunks(source.chunks, start_dt, end_dt, 0, [chunks |-> << >>, trace |-> << >>])
                 rows == Concat(acc.chunks)
                 stored == StoreFrame(heap, rows)
             IN  /\ heap' = stored.heap
                 /\ cache' = With(cache, cache_key, [data |-> stored.cached, timestamp |-> wallclock])
                 /\ held' = held \cup {stored.returned}
                 /\ loaded' = out("ok", FALSE, stored.returned, rows, acc.trace)

\* the whole file read chunk by chunk, each chunk preprocessed as it is read
RECURSIVE LoadRawData(_)
LoadRawData(file) ==
    IF file = << >> THEN << >> ELSE ProcPreprocessChunk(Head(file)) \o LoadRawData(Tail(file))

LoadAndProcessCall(start_dt, end_dt) ==
    LET out(status, rows) ==
            Outcome("load_and_process", loaded.calls + 1, CacheKey(start_dt, end_dt), FALSE,
                    source.exists, 0 - 1, status, FALSE, 0, rows, << >>)
    IN  IF ~source.exists
        THEN loaded' = out("FileNotFoundError", << >>)
        ELSE LET raw_data == LoadRawData(source.chunks)
                 filtered == IF start_dt # NoBound \/ end_dt # NoBound
                             THEN ProcFilterByDateRange(raw_data, start_dt, end_dt)
                             ELSE raw_data
             IN  loaded' = out("ok", ProcPipelineNormalize(filtered, FALSE))

(***************************************************************************)
(* SpecLoader: one tool instance and one processor over one source file.   *)
(***************************************************************************)

\* the requested windows: same start, different ends
Windows == {<<NormStart, NormToday>>, <<NormStart, NormFuture>>}

\* rows notified on day 5 (inside both windows), on day 20 (inside the
\* second only), or carrying a date that no parser accepts
SourceKinds == {"early", "late", "junk"}

SourceSizes == {1, MaxChunks, MaxChunks + 1}

SourceChunk(kind, i) ==
    <<[DefaultNormRow EXCEPT
          !.DT_NOTIFIC = CASE kind = "early" -> [style |-> "iso", d |-> 5, m |-> 3]
                           [] kind = "late" -> [style |-> "iso", d |-> 20, m |-> 3]
                           [] OTHER -> [style |-> "junk", d |-> 0, m |-> 0],
          !.NU_IDADE_N = i]>>

SourceFile(kind, n) == [i \in 1..n |-> SourceChunk(kind, i)]

IdleLoaded == Outcome("none", 0, << >>, FALSE, FALSE, 0 - 1, "none", FALSE, 0, << >>, << >>)

InitLoader ==
    /\ data = [cols |-> {}, rows |-> << >>]
    /\ report_date = Day0
    /\ now = [day |-> Day0, tod |-> 0]
    /\ result = NoResult
    /\ report = NoReport
    /\ derived = NoDerived
    /\ column = NoColumn
    /\ parsed = NoParsed
    /\ frame = NoFrame
    /\ quality = NoQuality
    /\ \E kind \in SourceKinds, n \in SourceSizes :
          source = [exists |-> TRUE, chunks |-> SourceFile(kind, n)]
    /\ heap = << >>
    /\ cache = << >>
    /\ held = {}
    /\ loaded = IdleLoaded
    /\ wallclock = 0

LoadSragData ==
    /\ loaded.calls < MaxLoads
    /\ \E w \in Windows, use_cache \in BOOLEAN : LoadSragDataCall(w[1], w[2], use_cache)
    /\ UNCHANGED <<data, report_date, now, result, report, derived, column, parsed>>
    /\ UNCHANGED <<frame, quality, source, wallclock>>

LoadAndProcess ==
    /\ loaded.calls < MaxLoads
    /\ \E w \in Windows \cup {<<NoBound, NoBound>>} : LoadAndProcessCall(w[1], w[2])
    /\ UNCHANGED <<data, report_date, now, result, report, derived, column, parsed>>
    /\ UNCHANGED <<frame, quality, source, heap, cache, held, wallclock>>

\* a caller overwrites, in place, a column of a dataset it was given
CallerModifies ==
    /\ \E id \in held :
          /\ heap[id] # << >>
          /\ heap' = [heap EXCEPT ![id] = [i \in 1..Len(heap[id]) |-> [heap[id][i] EXCEPT !.NU_IDADE_N = 0]]]
          /\ heap'[id] # heap[id]
    /\ UNCHANGED <<data, report_date, now, result, report, derived, column, parsed>>
    /\ UNCHANGED <<frame, quality, source, cache, held, loaded, wallclock>>

\* time passes between calls
TimePasses ==
    /\ wallclock < MaxLoaderTicks * TickMinutes
    /\ wallclock' = wallclock + TickMinutes
    /\ UNCHANGED <<data, report_date, now, result, report, derived, column, parsed>>
    /\ UNCHANGED <<frame, quality, source, heap, cache, held, loaded>>

\* the source file is deleted
RemoveSource ==
    /\ source.exists
    /\ source' = [source EXCEPT !.exists = FALSE]
    /\ UNCHANGED <<data, report_date, now, result, report, derived, column, parsed>>
    /\ UNCHANGED <<frame, quality, heap, cache, held, loaded, wallclock>>

NextLoader ==
    \/ LoadSragData
    \/ LoadAndProcess
    \/ CallerModifies
    \/ TimePasses
    \/ RemoveSource

SpecLoader == InitLoader /\ [][NextLoader]_vars

\* a step that is a call of load_srag_data
LoadSragDataReturns == loaded'.calls = loaded.calls + 1 /\ loaded'.op = "load_srag_data"

\* C16: a call of load_srag_data is served from the cache only if caching
\* was requested and the cache held, when the call began, an entry for
\* exactly the requested window that was less than one hour old, and it
\* then returns that entry's dataset; a call that finds an entry one hour
\* old or older is not served from it, and when the source exists the
\* source is read again and the entry replaced by the new dataset with the
\* time of the call.
C16_CacheServedOnlyFresh ==
    [][LoadSragDataReturns =>
        LET key == loaded'.key
            has_entry == key \in DOMAIN cache
        IN  /\ loaded'.hit =>
                  /\ loaded'.use_cache
                  /\ has_entry
                  /\ wallclock - cache[key].timestamp < CacheTTL
                  /\ loaded'.rows = heap[cache[key].data]
                  /\ loaded'.trace = << >>
            /\ (has_entry /\ wallclock - cache[key].timestamp >= CacheTTL) =>
                  /\ ~loaded'.hit
                  /\ source.exists =>
                        /\ loaded'.trace # << >>
                        /\ cache'[key].timestamp = wallclock'
                        /\ cache'[key].data # cache[key].data
                        /\ heap'[cache'[key].data] = loaded'.rows]_vars

\* a call with caching requested found an entry for its window exactly
\* one hour old, read the source again and stored a new entry
C16_Witness ==
    /\ loaded.op = "load_srag_data" /\ loaded.use_cache
    /\ loaded.entry_age = CacheTTL
    /\ loaded.status = "ok" /\ ~loaded.hit /\ loaded.trace # << >>
    /\ cache[loaded.key].timestamp = wallclock

\* the dataset a complete load of the source produces for a window
Assembled(key) ==
    Concat(ReadChunks(source.chunks, key[1], key[2], 0, [chunks |-> << >>, trace |-> << >>]).chunks)

\* C17: whatever the callers did to the datasets they were given, every
\* cache entry holds the complete dataset that the load which stored it
\* produced, and every cache hit returns a dataset equal to it.
C17_CachedSnapshotsImmutable ==
    /\ \A k \in DOMAIN cache : heap[cache[k].data] = Assembled(k)
    /\ (loaded.op = "load_srag_data" /\ loaded.hit) => loaded.rows = Assembled(loaded.key)

\* a cache hit returned a non-empty dataset after a caller had modified
\* the dataset returned by the load that stored the entry
C17_Witness ==
    /\ loaded.op = "load_srag_data" /\ loaded.hit /\ loaded.rows # << >>
    /\ \E id \in held :
          /\ id # loaded.frame
          /\ heap[id] # << >>
          /\ \A i \in 1..Len(heap[id]) : heap[id][i].NU_IDADE_N = 0

\* C18: a call of load_srag_data that reads an existing source returns
\* normally; it processes at most MaxChunks chunks; every step on a chunk
\* comes after all steps on the chunks before it, and a chunk is
\* processed or appended only after it was read; when the source holds
\* more chunks than MaxChunks the call returns the rows of its first
\* MaxChunks chunks.
C18_ChunkCapSequential ==
    (loaded.op = "load_srag_data" /\ ~loaded.hit /\ loaded.existed) =>
        LET t == loaded.trace
            n == Len(source.chunks)
        IN  /\ loaded.status = "ok"
            /\ Cardinality({i \in 1..Len(t) : t[i][1] = "process"}) <= MaxChunks
            /\ Cardinality({i \in 1..Len(t) : t[i][1] = "append"}) <= MaxChunks
            /\ \A i, j \in 1..Len(t) : i < j => t[i][2] <= t[j][2]
            /\ \A j \in 1..Len(t) :
                  t[j][1] \in {"process", "append", "break"} =>
                      \E i \in 1..(j - 1) : t[i] = <<"read", t[j][2]>>
            /\ \A j \in 1..Len(t) :
                  (t[j][1] = "read" /\ t[j][2] > 1) =>
                      \E i \in 1..(j - 1) : t[i] = <<"process", t[j][2] - 1>>
            /\ n > MaxChunks =>
                  loaded.rows = Concat([i \in 1..MaxChunks |->
                                           DbProcessChunk(source.chunks[i], loaded.key[1], loaded.key[2])])

\* a source of more than MaxChunks chunks was loaded and the call
\* returned normally the MaxChunks rows of its first MaxChunks chunks
C18_Witness ==
    /\ loaded.op = "load_srag_data" /\ ~loaded.hit /\ loaded.existed
    /\ Len(source.chunks) > MaxChunks
    /\ loaded.status = "ok"
    /\ Len(loaded.rows) = MaxChunks
    /\ loaded.trace[Len(loaded.trace)] = <<"break", MaxChunks + 1>>

\* the row has a notification date that parses and lies within the bounds
SurvivesIngestion(row, start_dt, end_dt) ==
    LET c == CellOfParsed(ParseWithFormat("%Y-%m-%d", row.DT_NOTIFIC))
    IN  /\ ~IsNaCell(c)
        /\ start_dt = NoBound \/ DateLE(start_dt, c)
        /\ end_dt = NoBound \/ DateLE(c, end_dt)

\* no row of the source survives ingestion for the window of the last call
NoRowSurvives ==
    \A i \in 1..Len(source.chunks) : \A j \in 1..Len(source.chunks[i]) :
        ~SurvivesIngestion(source.chunks[i][j], loaded.key[1], loaded.key[2])

\* C19: a call of load_srag_data or load_and_process on an existing
\* source of which no row survives ingestion returns normally, with an
\* empty dataset.
C19_EmptyResultNotError ==
    (loaded.op \in {"load_srag_data", "load_and_process"} /\ loaded.existed /\ NoRowSurvives) =>
        /\ loaded.status = "ok"
        /\ loaded.rows = << >>

\* a source with rows, none of them inside the requested window, was
\* loaded and the call returned an empty dataset
C19_Witness ==
    /\ loaded.op \in {"load_srag_data", "load_and_process"} /\ loaded.existed /\ ~loaded.hit
    /\ Len(source.chunks) > 0
    /\ NoRowSurvives
    /\ loaded.status = "ok" /\ loaded.rows = << >>

\* C20: a call of load_srag_data or load_and_process made while the source
\* file does not exist fails with FileNotFoundError, whatever the window
\* and whatever earlier calls loaded.
C20_MissingSourceNotFound ==
    (loaded.op \in {"load_srag_data", "load_and_process"} /\ ~loaded.existed) =>
        loaded.status = "FileNotFoundError"

\* the errors and the warnings that the eight checks return, in the order
\* in which the checks run
ChecksOf(qf) ==
    <<ValidateCompleteness(qf), ValidateDataTypes(qf), ValidateRanges(qf), ValidateCategoricalValues(qf),
      ValidateTemporalConsistency(qf), ValidateBusinessRules(qf), DetectOutliers(qf), ValidateDuplicates(qf)>>

RECURSIVE Collected(_, _)
Collected(checks, k) ==
    IF checks = << >> THEN << >> ELSE Get(Head(checks), k, << >>) \o Collected(Tail(checks), k)

\* C29: the errors list and the warnings list of a report hold every
\* error and every warning returned by the eight checks, in order, and
\* the score is the one computed from these complete lists.
C29_ReportKeepsAllFindings ==
    quality.op = "validated" =>
        LET all_errors == Collected(ChecksOf(quality.data), "errors")
            all_warnings == Collected(ChecksOf(quality.data), "warnings")
        IN  /\ quality.result["errors"] = all_errors
            /\ quality.result["warnings"] = all_warnings
            /\ quality.result["quality_score"] =
                  CalculateQualityScore(With(With(quality.result, "errors", all_errors),
                                             "warnings", all_warnings))

\* C30: a report is marked passed exactly when its errors list is empty,
\* the counters add up, and failed_validations counts the reports that
\* held an error (every report of one dataset holds the same errors).
C30_PassedFlagAndCounters ==
    quality.op = "validated" =>
        LET stats == quality.validation_stats
            has_error == quality.result["errors"] # << >>
        IN  /\ quality.result["passed"] = ~has_error
            /\ stats.total_validations = stats.passed_validations + stats.failed_validations
            /\ stats.failed_validations = (IF has_error THEN stats.total_validations ELSE 0)

\* the derived fields, other than the vaccination status, whose input
\* columns the dataset holds
DerivableFields(cols) ==
    (IF "EVOLUCAO" \in cols THEN {"EVOLUCAO_SIMPLES"} ELSE {})
    \cup (IF "UTI" \in cols THEN {"CASO_GRAVE"} ELSE {})
    \cup (IF "DT_NOTIFIC" \in cols THEN {"ANO", "MES", "SEMANA_EPI"} ELSE {})

\* C23: after the derived fields of a dataset were created, with or
\* without a failure in the vaccination status, every other derived field
\* whose inputs are present (outcome label, severity flag, calendar
\* parts) is a column of the result.
C23_DerivedFieldFailureIsolated ==
    derived.op \in {"db", "proc"} => DerivableFields(data.cols) \subseteq derived.cols

(***************************************************************************)
(* Age classification on the two paths.  An age that reaches it has been   *)
(* cleaned: it is NaNAge or within 0..MaxAge.  A comparison with a missing *)
(* age is false and pd.cut leaves a missing age without a bracket.         *)
(***************************************************************************)

\* DatabaseTool: pd.cut with bins [0, 12, 18, 60, 120], include_lowest
DbAgeBracket(age) ==
    CASE age = NaNAge \/ age < 0 \/ age > 120 -> "missing"
      [] age <= 12 -> "Crianca"
      [] age <= 18 -> "Adolescente"
      [] age <= 60 -> "Adulto"
      [] OTHER -> "Idoso"

\* DatabaseTool: 'Alto' from 60 years and below 2 years
DbRiskGroup(age) ==
    IF age # NaNAge /\ (age >= 60 \/ age < 2) THEN "Alto" ELSE "Baixo"

\* SRAGDataProcessor: 'Alto' from 60 years and below 5 years
ProcRiskGroup(age) ==
    IF age # NaNAge /\ (age >= 60 \/ age < 5) THEN "Alto" ELSE "Baixo"

NoClass == [risk |-> "none", bracket |-> "none"]

InitClassify ==
    /\ data = [cols |-> {}, rows |-> << >>]
    /\ report_date = Day0
    /\ now = [day |-> Day0, tod |-> 0]
    /\ result = NoResult
    /\ report = NoReport
    /\ derived = NoDerived
    /\ column = NoColumn
    /\ parsed = NoParsed
    /\ \E age \in (0..MaxAge) \cup {NaNAge} :
          frame = [path |-> "classify", age |-> age, db |-> NoClass, proc |-> NoClass]
    /\ quality = NoQuality
    /\ source = NoSource
    /\ heap = << >>
    /\ cache = << >>
    /\ held = {}
    /\ loaded = NoLoaded
    /\ wallclock = 0

\* the database tool derives and classifies the record
DbClassify ==
    /\ frame.db = NoClass
    /\ frame' = [frame EXCEPT !.db = [risk |-> DbRiskGroup(frame.age), bracket |-> DbAgeBracket(frame.age)]]
    /\ UNCHANGED <<data, report_date, now, result, report, derived, column, parsed>>
    /\ UNCHANGED <<quality, source, heap, cache, held, loaded, wallclock>>

\* the processor derives and classifies the record
ProcClassify ==
    /\ frame.proc = NoClass
    /\ frame' = [frame EXCEPT !.proc = [risk |-> ProcRiskGroup(frame.age), bracket |-> ProcAgeBracket(frame.age)]]
    /\ UNCHANGED <<data, report_date, now, result, report, derived, column, parsed>>
    /\ UNCHANGED <<quality, source, heap, cache, held, loaded, wallclock>>

NextClassify ==
    \/ DbClassify
    \/ ProcClassify

SpecClassify == InitClassify /\ [][NextClassify]_vars

\* C26: a record classified on both paths gets the same age-risk group
\* and the same age bracket on the processor path and on the database-tool
\* path, whatever its age.
C26_OneCanonicalAgeClassification ==
    (frame.db # NoClass /\ frame.proc # NoClass) =>
        /\ frame.db.risk = frame.proc.risk
        /\ frame.db.bracket = frame.proc.bracket

\* what a metric result says apart from its timestamp
Outputs(r) ==
    [rate100 |-> r.rate100, interp |-> r.interp, num |-> r.num, den |-> r.den,
     start |-> r.start, end |-> r.end, pstart |-> r.pstart, pend |-> r.pend]

\* C25: when a metric operation that has returned is executed again with
\* the same dataset, reference date and window length, at the same or a
\* later wall-clock time, it returns the same rate, interpretation,
\* counts and period bounds.
C25_MetricsDeterministic ==
    [][(/\ result.status = "ok" /\ result'.status = "ok"
        /\ result'.op = result.op /\ result'.period = result.period)
       => Outputs(result') = Outputs(result)]_vars

(***************************************************************************)
(* The effect of a metric operation on the dataset it is given.  dt_dtype  *)
(* is the dtype of the DT_NOTIFIC column: "datetime64", or "object" when   *)
(* the dates are held as YYYY-MM-DD text; the day numbers of the rows are  *)
(* the dates written in either form.                                       *)
(***************************************************************************)

\* data['DT_NOTIFIC'] = pd.to_datetime(data['DT_NOTIFIC']), on the
\* caller's dataset
NotificationConverted(d) == [d EXCEPT !.dt_dtype = "datetime64"]

\* calculate_case_increase_rate returns before the assignment when the
\* dataset is empty or has no DT_NOTIFIC
CaseIncreaseRateEffect(d) ==
    IF Len(d.rows) = 0 \/ "DT_NOTIFIC" \notin d.cols THEN d ELSE NotificationConverted(d)

\* the other three metrics have no such return: without the column the
\* right-hand side raises KeyError and nothing is assigned
PeriodMetricEffect(d) ==
    IF "DT_NOTIFIC" \notin d.cols THEN d ELSE NotificationConverted(d)

EffectRows == {[DefaultRow EXCEPT !.DT_NOTIFIC = dt] : dt \in {NaT, Day0 - 4, Day0 - 1}}

EffectDatasets ==
    {[cols |-> cs, rows |-> rs, dt_dtype |-> t] :
        cs \in {AllCols, AllCols \ {"DT_NOTIFIC"}},
        rs \in SeqsUpTo(EffectRows, MaxRows),
        t \in {"datetime64", "object"}}

InitEffect ==
    /\ data \in EffectDatasets
    /\ report_date = Day0
    /\ now = [day |-> Day0, tod |-> 0]
    /\ result = NoResult
    /\ report = NoReport
    /\ derived = NoDerived
    /\ column = NoColumn
    /\ parsed = NoParsed
    /\ IngestIdle

EffectCaseIncreaseRate ==
    \E n \in PeriodChoices :
        /\ result' = CaseIncreaseRate(data, report_date, n, now)
        /\ data' = CaseIncreaseRateEffect(data)
    /\ UNCHANGED <<report_date, now, report, derived, column, parsed, ingestVars>>

EffectMortalityRate ==
    \E n \in PeriodChoices :
        /\ result' = MortalityRate(data, report_date, n, now)
        /\ data' = PeriodMetricEffect(data)
    /\ UNCHANGED <<report_date, now, report, derived, column, parsed, ingestVars>>

EffectIcuOccupancyRate ==
    \E n \in PeriodChoices :
        /\ result' = IcuOccupancyRate(data, report_date, n, now)
        /\ data' = PeriodMetricEffect(data)
    /\ UNCHANGED <<report_date, now, report, derived, column, parsed, ingestVars>>

EffectVaccinationRate ==
    \E n \in PeriodChoices :
        /\ result' = VaccinationRate(data, report_date, n, now)
        /\ data' = PeriodMetricEffect(data)
    /\ UNCHANGED <<report_date, now, report, derived, column, parsed, ingestVars>>

NextEffect ==
    \/ EffectCaseIncreaseRate
    \/ EffectMortalityRate
    \/ EffectIcuOccupancyRate
    \/ EffectVaccinationRate

SpecEffect == InitEffect /\ [][NextEffect]_vars

\* C24: no metric operation changes the dataset it is given: after it
\* returns or raises, the columns, the values and the column types are
\* those of before the call.
C24_MetricsLeaveDatasetUnchanged == [][data' = data]_vars

(***************************************************************************)
(* The processor's counters (processing_stats) over a sequence of runs on  *)
(* one processor instance.  frame.stats is the dictionary of the instance, *)
(* frame.fresh the dictionary a new instance holds after the last run      *)
(* alone; processing_time is wall time and is left out.                    *)
(***************************************************************************)
MaxRuns == 2

MaxCounterRows == 2

\* SRAGDataProcessor.__init__: processing_stats
ProcessorInitStats ==
    [k \in {"records_loaded", "records_processed", "records_filtered", "columns_processed",
            "errors_found", "warnings_found"} |-> 0]

\* _clean_basic_fields: categorical_fields
ProcCategoricalFields == {"CS_SEXO", "SG_UF", "UTI", "EVOLUCAO", "VACINA_COV", "HOSPITAL"}

\* data[field].isna().sum() added up over the fields
RECURSIVE NullCounts(_, _)
NullCounts(fields, rows) ==
    IF fields = {} THEN 0
    ELSE LET f == CHOOSE x \in fields : TRUE
         IN  Len(SelectSeq(rows, LAMBDA r : r[f] = Nan)) + NullCounts(fields \ {f}, rows)

\* the counter updates of _clean_basic_fields on a dataset of the columns
\* of DefaultNormRow: 'rows_removed' += removed raises KeyError when the
\* dictionary has no such key, and the handler returns before the other
\* counters are touched
CleanBasicFieldsStats(stats, rows) ==
    LET kept == SelectSeq(rows, LAMBDA r : ~IsNaCell(r.DT_NOTIFIC))
        removed == Len(rows) - Len(kept)
        raised == removed > 0 /\ "rows_removed" \notin DOMAIN stats
        present == ProcCategoricalFields \cap DOMAIN DefaultNormRow
        cleaned == ProcCleanBasicFields(rows, TRUE)
        s1 == IF removed > 0 THEN With(stats, "rows_removed", stats["rows_removed"] + removed) ELSE stats
        s2 == With(s1, "errors_found", s1["errors_found"] + NullCounts(present, cleaned))
        s3 == With(s2, "columns_processed", s2["columns_processed"] + Cardinality(present))
    IN  [stats |-> IF raised THEN stats ELSE s3, raised |-> raised]

\* load_and_process: the counters after the run on a source of these rows
StatsLoadAndProcess(stats, raw, end_dt) ==
    LET loaded_rows == ProcPreprocessChunk(raw)
        s0 == With(stats, "records_loaded", Len(loaded_rows))
        filtered == IF end_dt = NoBound THEN loaded_rows
                    ELSE ProcFilterByDateRange(loaded_rows, NoBound, end_dt)
        c == CleanBasicFieldsStats(s0, filtered)
        processed == ProcPipelineNormalize(filtered, "rows_removed" \in DOMAIN s0)
    IN  [stats |-> With(c.stats, "records_processed", Len(processed)), raised |-> c.raised]

\* process(): the dictionary is rebuilt, the pipeline runs, the totals are
\* written over what the pipeline counted
StatsProcess(stats, raw) ==
    LET s0 == [initial_rows |-> Len(raw), records_loaded |-> Len(raw), records_processed |-> 0,
               columns_processed |-> 0, errors_found |-> 0, warnings_found |-> 0,
               rows_removed |-> 0]
        c == CleanBasicFieldsStats(s0, raw)
        processed == ProcPipelineNormalize(raw, TRUE)
        s1 == With(c.stats, "records_processed", Len(processed))
        s2 == With(s1, "final_rows", Len(processed))
    IN  [stats |-> With(s2, "rows_removed", s2["initial_rows"] - Len(processed)),
         raised |-> c.raised]

CounterRows ==
    {[DefaultNormRow EXCEPT !.DT_NOTIFIC = c, !.EVOLUCAO = e] :
        c \in {[style |-> "iso", d |-> 5, m |-> 3], [style |-> "nan", d |-> 0, m |-> 0]},
        e \in {Str("1"), Str("None")}}

CounterFrames == SeqsUpTo(CounterRows, MaxCounterRows)

InitCounters ==
    /\ data = [cols |-> {}, rows |-> << >>]
    /\ report_date = Day0
    /\ now = [day |-> Day0, tod |-> 0]
    /\ result = NoResult
    /\ report = NoReport
    /\ derived = NoDerived
    /\ column = NoColumn
    /\ parsed = NoParsed
    /\ frame = [path |-> "counters", last |-> "none", runs |-> 0, stats |-> ProcessorInitStats,
                fresh |-> ProcessorInitStats, raised |-> FALSE]
    /\ quality = NoQuality
    /\ source = NoSource
    /\ heap = << >>
    /\ cache = << >>
    /\ held = {}
    /\ loaded = NoLoaded
    /\ wallclock = 0

\* one more load_and_process on the same instance, over a source with rows
CountLoadAndProcess ==
    /\ frame.runs < MaxRuns
    /\ \E raw \in CounterFrames \ {<< >>}, end_dt \in {NoBound, NormToday} :
          LET run == StatsLoadAndProcess(frame.stats, raw, end_dt)
          IN  frame' = [frame EXCEPT !.last = "load", !.runs = @ + 1, !.stats = run.stats,
                                     !.fresh = StatsLoadAndProcess(ProcessorInitStats, raw, end_dt).stats,
                                     !.raised = run.raised]
    /\ UNCHANGED <<data, report_date, now, result, report, derived, column, parsed>>
    /\ UNCHANGED <<quality, source, heap, cache, held, loaded, wallclock>>

\* one more process() on the same instance; an empty dataset is rejected
\* with ValueError before any counter is touched
CountProcess ==
    /\ frame.runs < MaxRuns
    /\ \E raw \in CounterFrames :
          IF Len(raw) = 0
          THEN frame' = [frame EXCEPT !.last = "ValueError", !.runs = @ + 1, !.raised = FALSE]
          ELSE LET run == StatsProcess(frame.stats, raw)
               IN  frame' = [frame EXCEPT !.last = "process", !.runs = @ + 1, !.stats = run.stats,
                                          !.fresh = StatsProcess(ProcessorInitStats, raw).stats,
                                          !.raised = run.raised]
    /\ UNCHANGED <<data, report_date, now, result, report, derived, column, parsed>>
    /\ UNCHANGED <<quality, source, heap, cache, held, loaded, wallclock>>

NextCounters ==
    \/ CountLoadAndProcess
    \/ CountProcess

SpecCounters == InitCounters /\ [][NextCounters]_vars

\* the counters the claim names, -1 standing for a key the dictionary lacks
RunCounters(stats) ==
    [k \in {"records_loaded", "records_processed", "rows_removed", "errors_found",
            "columns_processed"} |-> Get(stats, k, 0 - 1)]

\* C27: the counters are scoped to one run: after any sequence of runs on
\* one instance the counters of the last run are those the same run
\* reports on a fresh processor, no counter update fails, and after
\* process() initial_rows = final_rows + rows_removed.
C27_CountersScopedToOneRun ==
    frame.last \in {"load", "process"} =>
        /\ RunCounters(frame.stats) = RunCounters(frame.fresh)
        /\ ~frame.raised
        /\ frame.last = "process" =>
              frame.stats["initial_rows"] = frame.stats["final_rows"] + frame.stats["rows_removed"]

\* the parts of C27 taken one by one
C27_NoUpdateFails == frame.last \in {"load", "process"} => ~frame.raised

C27_SameAsFresh ==
    frame.last \in {"load", "process"} => RunCounters(frame.stats) = RunCounters(frame.fresh)

C27_ProcessBalance ==
    frame.last = "process" =>
        frame.stats["initial_rows"] = frame.stats["final_rows"] + frame.stats["rows_removed"]

(***************************************************************************)
(* Length of stay (DIAS_INTERNACAO) through the processor's pipeline.  A   *)
(* record holds its notification, admission and outcome dates as cells of  *)
(* one month; the returned record also holds DIAS_INTERNACAO, a number or  *)
(* NaN.  The datasets have no ID_MUNICIP column, so no duplicate is        *)
(* dropped.                                                                *)
(***************************************************************************)
MaxStayRows == 2

\* (DT_EVOLUCA - DT_INTERNA).dt.days, negative values replaced by NaN
StayDays(admission, outcome) ==
    IF IsNaCell(admission) \/ IsNaCell(outcome) THEN Nan
    ELSE IF (outcome.m - admission.m) * 31 + outcome.d - admission.d < 0 THEN Nan
    ELSE Num((outcome.m - admission.m) * 31 + outcome.d - admission.d)

\* _convert_data_types on the admission and outcome dates
StayConvertDataTypes(rows) ==
    [i \in 1..Len(rows) |->
        [rows[i] EXCEPT !.DT_INTERNA = CellOfParsed(ParseWithFormat("%Y-%m-%d", rows[i].DT_INTERNA)),
                        !.DT_EVOLUCA = CellOfParsed(ParseWithFormat("%Y-%m-%d", rows[i].DT_EVOLUCA))]]

\* _create_derived_fields, step 9
StayCreateDerivedFields(rows) ==
    [i \in 1..Len(rows) |->
        [DT_NOTIFIC |-> rows[i].DT_NOTIFIC, DT_INTERNA |-> rows[i].DT_INTERNA,
         DT_EVOLUCA |-> rows[i].DT_EVOLUCA,
         DIAS_INTERNACAO |-> StayDays(rows[i].DT_INTERNA, rows[i].DT_EVOLUCA)]]

\* _validate_and_filter, step 1: an outcome date before the notification
\* date is replaced by NaN; nothing else of the record is written
StayValidateAndFilter(rows) ==
    [i \in 1..Len(rows) |->
        IF /\ ~IsNaCell(rows[i].DT_EVOLUCA)
           /\ ~IsNaCell(rows[i].DT_NOTIFIC)
           /\ ~DateLE(rows[i].DT_NOTIFIC, rows[i].DT_EVOLUCA)
        THEN [rows[i] EXCEPT !.DT_EVOLUCA = [style |-> "nan", d |-> 0, m |-> 0]]
        ELSE rows[i]]

\* _process_data_pipeline on the three dates: rows without notification
\* date dropped, types converted, derived fields, validation
StayPipeline(rows) ==
    StayValidateAndFilter(StayCreateDerivedFields(StayConvertDataTypes(
        SelectSeq(rows, LAMBDA r : ~IsNaCell(r.DT_NOTIFIC)))))

\* _preprocess_chunk on the notification date
StayPreprocessChunk(rows) ==
    [i \in 1..Len(rows) |->
        [rows[i] EXCEPT !.DT_NOTIFIC = CellOfParsed(ParseWithFormat("%Y-%m-%d", rows[i].DT_NOTIFIC))]]

StayRows ==
    {[DT_NOTIFIC |-> n, DT_INTERNA |-> a, DT_EVOLUCA |-> o] :
        n \in {[style |-> "iso", d |-> 5, m |-> 3], [style |-> "nan", d |-> 0, m |-> 0]},
        a \in {[style |-> "iso", d |-> 3, m |-> 3], [style |-> "iso", d |-> 6, m |-> 3],
               [style |-> "nan", d |-> 0, m |-> 0]},
        o \in {[style |-> "iso", d |-> 4, m |-> 3], [style |-> "iso", d |-> 7, m |-> 3],
               [style |-> "br", d |-> 7, m |-> 3], [style |-> "nan", d |-> 0, m |-> 0]}}

InitStay ==
    /\ data = [cols |-> {}, rows |-> << >>]
    /\ report_date = Day0
    /\ now = [day |-> Day0, tod |-> 0]
    /\ result = NoResult
    /\ report = NoReport
    /\ derived = NoDerived
    /\ column = NoColumn
    /\ parsed = NoParsed
    /\ \E raw \in SeqsUpTo(StayRows, MaxStayRows) :
          frame = [path |-> "stay", status |-> "none", raw |-> raw, rows |-> << >>]
    /\ quality = NoQuality
    /\ source = NoSource
    /\ heap = << >>
    /\ cache = << >>
    /\ held = {}
    /\ loaded = NoLoaded
    /\ wallclock = 0

\* load_and_process over a source holding the records
StayLoadAndProcess ==
    /\ frame.status = "none"
    /\ Len(frame.raw) > 0
    /\ frame' = [frame EXCEPT !.status = "ok", !.rows = StayPipeline(StayPreprocessChunk(frame.raw))]
    /\ UNCHANGED <<data, report_date, now, result, report, derived, column, parsed>>
    /\ UNCHANGED <<quality, source, heap, cache, held, loaded, wallclock>>

\* process() on the records held in memory with their notification date
\* already of datetime type
StayProcess ==
    /\ frame.status = "none"
    /\ IF Len(frame.raw) = 0
       THEN frame' = [frame EXCEPT !.status = "ValueError"]
       ELSE frame' = [frame EXCEPT !.status = "ok", !.raw = StayPreprocessChunk(@),
                                   !.rows = StayPipeline(StayPreprocessChunk(frame.raw))]
    /\ UNCHANGED <<data, report_date, now, result, report, derived, column, parsed>>
    /\ UNCHANGED <<quality, source, heap, cache, held, loaded, wallclock>>

NextStay ==
    \/ StayLoadAndProcess
    \/ StayProcess

SpecStay == InitStay /\ [][NextStay]_vars

\* the length of stay that the dates of the returned record give
StayOfFinalDates(r) == StayDays(r.DT_INTERNA, r.DT_EVOLUCA)

\* C28: in the returned dataset every record's length of stay is the
\* outcome date minus the admission date of that returned record when
\* both are present and the difference is not negative, it is missing
\* otherwise, and it is never negative.
C28_StayConsistentWithFinalDates ==
    frame.status = "ok" =>
        \A i \in 1..Len(frame.rows) :
            /\ frame.rows[i].DIAS_INTERNACAO = StayOfFinalDates(frame.rows[i])
            /\ frame.rows[i].DIAS_INTERNACAO # Nan => frame.rows[i].DIAS_INTERNACAO.n >= 0

\* the part of C28 on the sign alone
C28_StayNeverNegative ==
    frame.status = "ok" =>
        \A i \in 1..Len(frame.rows) :
            frame.rows[i].DIAS_INTERNACAO # Nan => frame.rows[i].DIAS_INTERNACAO.n >= 0

(***************************************************************************)
(* load_srag_data over a source file whose header may lack columns and     *)
(* whose chunks may fail.  The file is a header (the set of its columns)   *)
(* and a sequence of chunks; a chunk is a sequence of lines, well formed   *)
(* or not, and a fault: "none", "ParserError" (the reader raises           *)
(* pd.errors.ParserError when it is asked for this chunk) or "processing"  *)
(* (an exception inside _process_chunk).  The tool is new: its cache is    *)
(* empty.                                                                  *)
(***************************************************************************)
MaxFileChunks == 3

\* DatabaseTool.__init__: essential_columns
EssentialColumns ==
    {"DT_NOTIFIC", "SG_UF_NOT", "CO_MUN_NOT", "CS_SEXO", "NU_IDADE_N", "UTI", "SUPORT_VEN",
     "EVOLUCAO", "DT_EVOLUCA", "HOSPITAL", "DT_INTERNA", "VACINA_COV", "DOSE_1_COV",
     "DOSE_2_COV", "DOSE_REF", "FEBRE", "TOSSE", "DISPNEIA", "DESC_RESP", "SATURACAO",
     "DIARREIA", "VOMITO"}

\* _get_available_columns: the essential columns of the header, None (every
\* column is read) when there is none
GetAvailableColumns(header) ==
    IF EssentialColumns \cap header = {} THEN header ELSE EssentialColumns \cap header

\* pd.read_csv(..., on_bad_lines='skip', usecols=...) on one chunk: the
\* malformed lines are left out, the other lines keep the columns read
ReadCsvChunk(chunk, usecols) ==
    LET good == SelectSeq(chunk.lines, LAMBDA l : l.ok)
    IN  [i \in 1..Len(good) |-> [c \in usecols |-> good[i].row[c]]]

\* _parse_all_dates on the columns of a chunk
ChunkParseAllDates(rows) ==
    [i \in 1..Len(rows) |->
        [c \in DOMAIN rows[i] |->
            IF c \in IsoDateFields THEN CellOfParsed(ParseWithFormat("%Y-%m-%d", rows[i][c]))
            ELSE rows[i][c]]]

\* _basic_cleaning, one cell of the column c
ChunkCleanCell(c, v) ==
    CASE c = "EVOLUCAO" -> DbCleanCategorical(v, {"1", "2", "3", "9"})
      [] c \in {"UTI", "HOSPITAL"} -> DbCleanCategorical(v, {"1", "2", "9"})
      [] c = "NU_IDADE_N" -> CleanAge(v)
      [] OTHER -> v

\* _process_chunk on a chunk of the columns cols: the window filter and the
\* removal of undated rows apply only when the chunk has DT_NOTIFIC
ColumnsProcessChunk(cols, rows, start_dt, end_dt) ==
    LET parsed_rows == ChunkParseAllDates(rows)
        in_window == IF "DT_NOTIFIC" \in cols
                     THEN SelectSeq(parsed_rows, LAMBDA r :
                              /\ ~IsNaCell(r["DT_NOTIFIC"])
                              /\ DateLE(start_dt, r["DT_NOTIFIC"])
                              /\ DateLE(r["DT_NOTIFIC"], end_dt))
                     ELSE parsed_rows
    IN  [i \in 1..Len(in_window) |-> [c \in cols |-> ChunkCleanCell(c, in_window[i][c])]]

\* the chunk loop of load_srag_data inside its try: a ParserError raised
\* by the reader leaves the loop, the handler after the loop passes
RECURSIVE ReadFileChunks(_, _, _, _, _, _)
ReadFileChunks(file, usecols, start_dt, end_dt, chunk_count, acc) ==
    IF chunk_count = Len(file) THEN acc
    ELSE LET count == chunk_count + 1
         IN  IF file[count].fault = "ParserError"
             THEN [acc EXCEPT !.trace = Append(@, <<"ParserError", count>>)]
             ELSE LET read == Append(acc.trace, <<"read", count>>)
                  IN  IF ExceedsCap(count)
                      THEN [acc EXCEPT !.trace = Append(read, <<"break", count>>)]
                      ELSE LET processed_chunk ==
                                   IF file[count].fault = "processing" THEN << >>
                                   ELSE ColumnsProcessChunk(usecols, ReadCsvChunk(file[count], usecols),
                                                            start_dt, end_dt)
                               done == Append(read, <<"process", count>>)
                           IN  IF processed_chunk # << >>
                               THEN ReadFileChunks(file, usecols, start_dt, end_dt, count,
                                                   [chunks |-> Append(acc.chunks, processed_chunk),
                                                    trace |-> Append(done, <<"append", count>>)])
                               ELSE ReadFileChunks(file, usecols, start_dt, end_dt, count,
                                                   [chunks |-> acc.chunks, trace |-> done])

\* the values of a line; SEM_NOT is a column outside the essential ones
FileRow(day, i) ==
    [DT_NOTIFIC |-> [style |-> "iso", d |-> day, m |-> 3], NU_IDADE_N |-> i, EVOLUCAO |-> Str("1"),
     UTI |-> Str("2"), HOSPITAL |-> Str("1"), SEM_NOT |-> Str("7")]

FileColumns == DOMAIN FileRow(5, 1)

ChunkKinds == {"early", "late", "bad_lines", "ParserError", "processing"}

\* a chunk of a file with this header: every line holds the header's columns
FileChunk(kind, i, header) ==
    LET line(ok, day) == [ok |-> ok, row |-> [c \in header |-> FileRow(day, i)[c]]]
    IN  CASE kind = "early" -> [fault |-> "none", lines |-> <<line(TRUE, 5)>>]
          [] kind = "late" -> [fault |-> "none", lines |-> <<line(TRUE, 20)>>]
          [] kind = "bad_lines" -> [fault |-> "none", lines |-> <<line(FALSE, 5), line(TRUE, 5)>>]
          [] OTHER -> [fault |-> kind, lines |-> <<line(TRUE, 5)>>]

Headers ==
    {FileColumns \ missing : missing \in {{}, {"DT_NOTIFIC"}, {"UTI"}, {"EVOLUCAO", "NU_IDADE_N"}}}
    \cup {{"SEM_NOT"}}

InitFile ==
    /\ data = [cols |-> {}, rows |-> << >>]
    /\ report_date = Day0
    /\ now = [day |-> Day0, tod |-> 0]
    /\ result = NoResult
    /\ report = NoReport
    /\ derived = NoDerived
    /\ column = NoColumn
    /\ parsed = NoParsed
    /\ frame = NoFrame
    /\ quality = NoQuality
    /\ \E header \in Headers, n \in 1..MaxFileChunks :
          \E kinds \in [1..n -> ChunkKinds] :
              source = [exists |-> TRUE, header |-> header,
                        chunks |-> [i \in 1..n |-> FileChunk(kinds[i], i, header)]]
    /\ heap = << >>
    /\ cache = << >>
    /\ held = {}
    /\ loaded = [op |-> "none", calls |-> 0]
    /\ wallclock = 0

\* load_srag_data on the new tool: nothing is cached, the file exists
LoadFile ==
    /\ loaded.calls = 0
    /\ \E w \in Windows :
          LET usecols == GetAvailableColumns(source.header)
              acc == ReadFileChunks(source.chunks, usecols, w[1], w[2], 0,
                                    [chunks |-> << >>, trace |-> << >>])
              rows == Concat(acc.chunks)
              stored == StoreFrame(heap, rows)
          IN  /\ heap' = stored.heap
              /\ cache' = With(cache, CacheKey(w[1], w[2]), [data |-> stored.cached, timestamp |-> wallclock])
              /\ held' = held \cup {stored.returned}
              /\ loaded' = [op |-> "load_srag_data", calls |-> 1, status |-> "ok", window |-> w,
                            columns |-> IF rows = << >> THEN {} ELSE usecols,
                            rows |-> rows, trace |-> acc.trace]
    /\ UNCHANGED <<data, report_date, now, result, report, derived, column, parsed>>
    /\ UNCHANGED <<frame, quality, source, wallclock>>

NextFile == LoadFile

SpecFile == InitFile /\ [][NextFile]_vars

FileLoaded == loaded.op = "load_srag_data"

\* C21: a load over a file lacking essential columns other than the
\* notification date proceeds with the columns that exist; a load over a
\* file lacking the notification-date column fails with a fatal error and
\* returns no dataset.
C21_OnlyDateColumnIsFatal ==
    FileLoaded =>
        IF "DT_NOTIFIC" \in source.header
        THEN /\ loaded.status = "ok"
             /\ loaded.rows # << >> => loaded.columns = EssentialColumns \cap source.header
        ELSE loaded.status # "ok"

\* the tolerated half of C21 alone
C21_OtherColumnsTolerated ==
    (FileLoaded /\ "DT_NOTIFIC" \in source.header) =>
        /\ loaded.status = "ok"
        /\ loaded.rows # << >> => loaded.columns = EssentialColumns \cap source.header

\* the rows that the chunks without fault hold for the window, up to the cap
RECURSIVE RowsOfSoundChunks(_, _, _, _)
RowsOfSoundChunks(file, usecols, w, i) ==
    IF i > Len(file) \/ i > MaxChunks THEN << >>
    ELSE (IF file[i].fault = "none"
          THEN ColumnsProcessChunk(usecols, ReadCsvChunk(file[i], usecols), w[1], w[2])
          ELSE << >>) \o RowsOfSoundChunks(file, usecols, w, i + 1)

\* C22: a parse or processing failure of one chunk never aborts the load:
\* the load returns, every chunk up to the cap is read, and the rows of
\* all the other chunks are in the returned dataset.
C22_ChunkFailureNeverAborts ==
    FileLoaded =>
        /\ loaded.status = "ok"
        /\ \A i \in 1..Len(source.chunks) :
              (i <= MaxChunks /\ source.chunks[i].fault # "ParserError") =>
                  \E k \in 1..Len(loaded.trace) : loaded.trace[k] = <<"process", i>>
        /\ loaded.rows = RowsOfSoundChunks(source.chunks, GetAvailableColumns(source.header),
                                           loaded.window, 1)

\* C22 for the files in which no read raises ParserError
C22_ProcessingFailureSkipped ==
    (FileLoaded /\ \A i \in 1..Len(source.chunks) : source.chunks[i].fault # "ParserError") =>
        /\ loaded.status = "ok"
        /\ \A i \in 1..Len(source.chunks) :
              i <= MaxChunks => \E k \in 1..Len(loaded.trace) : loaded.trace[k] = <<"process", i>>
        /\ loaded.rows = RowsOfSoundChunks(source.chunks, GetAvailableColumns(source.header),
                                           loaded.window, 1)

====
